---- MODULE Spec2Model ----
(***************************************************************************)
(* A model of the squish shell's line-to-process core: the parser          *)
(* (src/src/parser.rs), the tree-walking executor (src/src/shell.rs) with  *)
(* the builtin dispatcher (src/src/builtins.rs) and the job table          *)
(* (src/src/jobs.rs).                                                      *)
(*                                                                         *)
(* Strings are sequences of one-character strings, so that the code's      *)
(* character scans can be modelled.  Indices into token slices are         *)
(* 0-based as in the Rust source; tokens[i] of the source is tokens[i+1]   *)
(* here.                                                                   *)
(***************************************************************************)
EXTENDS Integers, Sequences, FiniteSets, TLC

VARIABLES
    tokens,       \* parser: the token sequence of the line being parsed
    pc,           \* parser: position inside parse_tokens / parse_chain
    i,            \* parser: parse_chain's scan index
    parts,        \* parser: parse_chain's parts vector
    ops,          \* parser: parse_chain's ops vector
    result,       \* parser: what parse_command_line returned
    last_status,  \* Shell.last_status
    jobs,         \* JobManager.jobs
    next_id,      \* JobManager.next_id
    files,        \* the file system: file name -> content, or absent
    line,         \* history: the last line run and what running it did
    nlines,       \* history: the number of lines run in the session
    issued,       \* history: the ids add_job has returned, in order
    aliases,      \* AliasManager.aliases
    alias_file,   \* the file AliasManager.config_path names
    alias_op,     \* history: the last operation on the alias table
    session,      \* "reading" while the loop of run_repl reads lines
    lexer         \* tokenize: its locals, its position and what followed

parseVars == <<tokens, pc, i, parts, ops, result>>
shellVars == <<last_status, jobs, next_id, files, line, nlines, issued>>
aliasVars == <<aliases, alias_file, alias_op>>
vars == <<tokens, pc, i, parts, ops, result,
          last_status, jobs, next_id, files, line, nlines, issued,
          aliases, alias_file, alias_op, session, lexer>>

-----------------------------------------------------------------------------
(* Bounds of the model *)

MaxTokens == 5      \* longest enumerated token sequence
MaxParts == 4       \* cap on parse_chain's parts vector (it can grow forever)
MaxLines == 2       \* lines run in a session of the executor
MaxJobLines == 5    \* lines run in a session of the job table
MaxFileLen == 8     \* longest file content
MaxTextLen == 4     \* longest text given to AliasManager::expand
MaxAliasOps == 3    \* operations on the alias table in a session
MaxLexLen == 4      \* longest enumerated text given to tokenize

-----------------------------------------------------------------------------
(* Strings *)

S_a == <<"a">>
S_b == <<"b">>
S_c == <<"c">>
S_d == <<"d">>
S_f == <<"f">>
S_ls == <<"l", "s">>
S_cmd == <<"c", "m", "d">>
S_grep == <<"g", "r", "e", "p">>
S_foo == <<"f", "o", "o">>
S_out_txt == <<"o", "u", "t", ".", "t", "x", "t">>
S_HOME == <<"H", "O", "M", "E">>
S_time == <<"t", "i", "m", "e">>
S_segv == <<"s", "e", "g", "v">>
S_true == <<"t", "r", "u", "e">>
S_false == <<"f", "a", "l", "s", "e">>
S_echo == <<"e", "c", "h", "o">>
S_hi == <<"h", "i">>
S_cat == <<"c", "a", "t">>
S_ex3 == <<"e", "x", "3">>
S_noexec == <<"n", "o", "e", "x", "e", "c">>
S_nosuch == <<"n", "o", "s", "u", "c", "h">>
S_sleep == <<"s", "l", "e", "e", "p">>
S_export == <<"e", "x", "p", "o", "r", "t">>
S_unset == <<"u", "n", "s", "e", "t">>
S_ll == <<"l", "l">>
S_jobs == <<"j", "o", "b", "s">>
S_fg == <<"f", "g">>
S_bg == <<"b", "g">>
S_dot == <<".">>
S_1 == <<"1">>
S_2 == <<"2">>
S_3 == <<"3">>
S_5 == <<"5">>

\* The backquote character (the tools cannot read it inside a string).
BackQuote == "BQ"

\* Characters that are neither alphanumeric nor '_' among those modelled.
NonNameChars ==
    {"$", "(", ")", "{", "}", BackQuote, "~", "/", "*", "?", "[", "]", " ", "\t",
     "\n", "|", "&", ">", "<", "'", "\"", "\\", ".", "-", "="}

IsNameChar(ch) == ch \notin NonNameChars

Contains(s, ch) == \E k \in 1..Len(s) : s[k] = ch

Tail2(s) == SubSeq(s, 3, Len(s))

\* let v = ...; body(v)
Bind(v, Body(_)) == Body(v)

-----------------------------------------------------------------------------
(* The process environment and the working directory, as the parser reads  *)
(* them.                                                                   *)

\* std::env::var(name): the value when the variable is set.
EnvVars == [n \in {S_HOME} |-> <<"/", "h">>]

env_var(name) ==
    IF name \in DOMAIN EnvVars
    THEN [ok |-> TRUE, val |-> EnvVars[name]]
    ELSE [ok |-> FALSE, val |-> <<>>]

\* The names the working directory may hold, in the order glob::glob yields
\* them; files[n] tells whether n exists and what it contains.
FileNames == <<S_f, S_out_txt>>
FileSet == {S_f, S_out_txt}
NoFile == [exists |-> FALSE, data |-> <<>>]
FileOf(data) == [exists |-> TRUE, data |-> data]

-----------------------------------------------------------------------------
(* Tokens and command trees *)

Word(t) == [type |-> "Word", text |-> t]
TPipe == [type |-> "Pipe"]
TRedirectOut == [type |-> "RedirectOut"]
TRedirectAppend == [type |-> "RedirectAppend"]
TRedirectIn == [type |-> "RedirectIn"]
TAnd == [type |-> "And"]
TOr == [type |-> "Or"]
TBackground == [type |-> "Background"]

Simple(argv, background) ==
    [type |-> "Simple", argv |-> argv, background |-> background]
Pipe(left, right) == [type |-> "Pipe", left |-> left, right |-> right]
RedirectOut(cmd, file, append) ==
    [type |-> "RedirectOut", cmd |-> cmd, file |-> file, append |-> append]
RedirectIn(cmd, file) == [type |-> "RedirectIn", cmd |-> cmd, file |-> file]
Chain(left, right, and) ==
    [type |-> "Chain", left |-> left, right |-> right, and |-> and]

\* Result<(CommandPart, usize), ShellError> of the parse functions.
Parsed(node, next) == [ok |-> TRUE, node |-> node, next |-> next]
ParseErr(msg) == [ok |-> FALSE, msg |-> msg]

\* &tokens[i..]
SliceFrom(ts, k) == SubSeq(ts, k + 1, Len(ts))

-----------------------------------------------------------------------------
(* Word expansion (parser.rs) *)

expand_tilde(input) ==
    LET home == env_var(S_HOME) IN
    IF ~home.ok THEN input
    ELSE IF input = <<"~">> THEN home.val
    ELSE IF Len(input) >= 2 /\ input[1] = "~" /\ input[2] = "/"
         THEN home.val \o <<"/">> \o Tail2(input)
    ELSE input

IsSpace(ch) == ch \in {" ", "\t", "\n"}

RECURSIVE TrimStart(_)
TrimStart(s) ==
    IF s # <<>> /\ IsSpace(Head(s)) THEN TrimStart(Tail(s)) ELSE s

RECURSIVE TrimEnd(_)
TrimEnd(s) ==
    IF s # <<>> /\ IsSpace(s[Len(s)])
    THEN TrimEnd(SubSeq(s, 1, Len(s) - 1))
    ELSE s

\* What "sh -c cmd" writes to its standard output: an echo prints its
\* operands and a newline, every other modelled command prints nothing.
sh_stdout(cmd) ==
    IF Len(cmd) >= 5 /\ SubSeq(cmd, 1, 5) = <<"e", "c", "h", "o", " ">>
    THEN SubSeq(cmd, 6, Len(cmd)) \o <<"\n">>
    ELSE <<>>

execute_command_subst(cmd) ==
    [ok |-> TRUE, val |-> TrimEnd(TrimStart(sh_stdout(cmd)))]

\* The capture loops of expand_word_with_subst; k is the position of the
\* next character to read (1-based), the result holds the captured text and
\* the position after the capture.
RECURSIVE CaptureParen(_, _, _, _)
CaptureParen(s, k, depth, acc) ==
    IF k > Len(s) THEN [text |-> acc, next |-> k]
    ELSE LET d1 == IF s[k] = "(" THEN depth + 1 ELSE depth
             d2 == IF s[k] = ")" THEN d1 - 1 ELSE d1
         IN  IF s[k] = ")" /\ d2 = 0 THEN [text |-> acc, next |-> k + 1]
             ELSE CaptureParen(s, k + 1, d2, Append(acc, s[k]))

RECURSIVE CaptureUntil(_, _, _, _)
CaptureUntil(s, k, close, acc) ==
    IF k > Len(s) THEN [text |-> acc, next |-> k]
    ELSE IF s[k] = close THEN [text |-> acc, next |-> k + 1]
    ELSE CaptureUntil(s, k + 1, close, Append(acc, s[k]))

RECURSIVE CaptureName(_, _, _)
CaptureName(s, k, acc) ==
    IF k <= Len(s) /\ IsNameChar(s[k])
    THEN CaptureName(s, k + 1, Append(acc, s[k]))
    ELSE [text |-> acc, next |-> k]

EnvText(name) == IF env_var(name).ok THEN env_var(name).val ELSE <<>>

RECURSIVE ExpandScan(_, _, _)
ExpandScan(s, k, out) ==
    IF k > Len(s) THEN [ok |-> TRUE, val |-> out]
    ELSE IF s[k] = "$" THEN
        IF k + 1 <= Len(s) /\ s[k + 1] = "(" THEN
            Bind(CaptureParen(s, k + 2, 1, <<>>), LAMBDA cap :
            Bind(execute_command_subst(cap.text), LAMBDA sub :
                IF ~sub.ok THEN sub
                ELSE ExpandScan(s, cap.next, out \o sub.val)))
        ELSE IF k + 1 <= Len(s) /\ s[k + 1] = "{" THEN
            Bind(CaptureUntil(s, k + 2, "}", <<>>), LAMBDA cap :
                ExpandScan(s, cap.next, out \o EnvText(cap.text)))
        ELSE
            Bind(CaptureName(s, k + 1, <<>>), LAMBDA cap :
                IF cap.text # <<>>
                THEN ExpandScan(s, cap.next, out \o EnvText(cap.text))
                ELSE ExpandScan(s, cap.next, Append(out, "$")))
    ELSE IF s[k] = BackQuote THEN
        Bind(CaptureUntil(s, k + 1, BackQuote, <<>>), LAMBDA cap :
        Bind(execute_command_subst(cap.text), LAMBDA sub :
            IF ~sub.ok THEN sub
            ELSE ExpandScan(s, cap.next, out \o sub.val)))
    ELSE ExpandScan(s, k + 1, Append(out, s[k]))

expand_word_with_subst(word) == ExpandScan(expand_tilde(word), 1, <<>>)

\* glob::Pattern matching of one name, with the metacharacters * and ?.
RECURSIVE GlobMatch(_, _)
GlobMatch(pat, name) ==
    IF pat = <<>> THEN name = <<>>
    ELSE IF Head(pat) = "*"
         THEN GlobMatch(Tail(pat), name)
              \/ (name # <<>> /\ GlobMatch(pat, Tail(name)))
    ELSE IF name = <<>> THEN FALSE
    ELSE (Head(pat) = "?" \/ Head(pat) = Head(name))
         /\ GlobMatch(Tail(pat), Tail(name))

expand_glob(word) ==
    IF ~(Contains(word, "*") \/ Contains(word, "?") \/ Contains(word, "["))
    THEN <<>>
    ELSE SelectSeq(FileNames,
                   LAMBDA n : files[n].exists /\ GlobMatch(word, n))

-----------------------------------------------------------------------------
(* The tokenizer (parser.rs) and the line editor's incompleteness detector *)
(* (completion.rs)                                                         *)

\* The locals of tokenize: the characters of the input, the number of them
\* consumed, the pending word, the two quote flags and the tokens pushed.
TokenizeStart(input) ==
    [input |-> input, pos |-> 0, current |-> <<>>, in_single |-> FALSE,
     in_double |-> FALSE, tokens |-> <<>>]

\* if !current.is_empty() { tokens.push(Token::Word(current.clone()));
\* current.clear(); }
flush(st) ==
    IF st.current # <<>>
    THEN [st EXCEPT !.tokens = Append(st.tokens, Word(st.current)),
                    !.current = <<>>]
    ELSE st

\* chars.peek() == Some(&ch), when the character at pos is being handled.
peek_is(st, ch) ==
    st.pos + 2 <= Len(st.input) /\ st.input[st.pos + 2] = ch

\* An operator arm that never looks at the next character.
operator_arm_single(st, ch, pair, lone) ==
    [flush(st) EXCEPT !.tokens = Append(flush(st).tokens, lone),
                      !.pos = st.pos + 1]

\* The arms for | & >: the pending word is flushed, then the operator of
\* two characters is pushed when the next character is the same one, and
\* the operator of one character otherwise.
operator_arm(st, ch, pair, lone) ==
    IF peek_is(st, ch)
    THEN [flush(st) EXCEPT !.tokens = Append(flush(st).tokens, pair),
                           !.pos = st.pos + 2]
    ELSE [flush(st) EXCEPT !.tokens = Append(flush(st).tokens, lone),
                           !.pos = st.pos + 1]

\* A quote arm that toggles its flag whatever the other flag is.
quote_arm_unguarded(st, ch) ==
    IF ch = "'"
    THEN [st EXCEPT !.in_single = ~st.in_single, !.pos = st.pos + 1]
    ELSE [st EXCEPT !.in_double = ~st.in_double, !.pos = st.pos + 1]

\* Quote arms that keep the quote in the pending word when it toggles.
quote_arm_keeping(st, ch) ==
    IF ch = "'" /\ ~st.in_double
    THEN [st EXCEPT !.in_single = ~st.in_single, !.pos = st.pos + 1,
                    !.current = Append(st.current, ch)]
    ELSE IF ch = "\"" /\ ~st.in_single
    THEN [st EXCEPT !.in_double = ~st.in_double, !.pos = st.pos + 1,
                    !.current = Append(st.current, ch)]
    ELSE [st EXCEPT !.current = Append(st.current, ch), !.pos = st.pos + 1]

\* The two quote arms and the default arm, for a character ch that is a
\* quote: it toggles its flag when the other flag is clear and is pushed
\* to the pending word otherwise.
quote_arm(st, ch) ==
    IF ch = "'" /\ ~st.in_double
    THEN [st EXCEPT !.in_single = ~st.in_single, !.pos = st.pos + 1]
    ELSE IF ch = "\"" /\ ~st.in_single
    THEN [st EXCEPT !.in_double = ~st.in_double, !.pos = st.pos + 1]
    ELSE [st EXCEPT !.current = Append(st.current, ch), !.pos = st.pos + 1]

\* The arms guarded by !in_single && !in_double, for the character ch.
unquoted_arm(st, ch) ==
    IF ch \in {" ", "\t"} THEN [flush(st) EXCEPT !.pos = st.pos + 1]
    ELSE IF ch = "|" THEN operator_arm(st, ch, TOr, TPipe)
    ELSE IF ch = "&" THEN operator_arm(st, ch, TAnd, TBackground)
    ELSE IF ch = ">" THEN operator_arm(st, ch, TRedirectAppend, TRedirectOut)
    ELSE [flush(st) EXCEPT !.tokens = Append(flush(st).tokens, TRedirectIn),
                           !.pos = st.pos + 1]

\* One iteration of the while loop of tokenize, on the character ch.
tokenize_match(st, ch) ==
    IF ch \in {"'", "\""} THEN quote_arm(st, ch)
    ELSE IF ch \in {" ", "\t", "|", "&", ">", "<"}
            /\ ~st.in_single /\ ~st.in_double
    THEN unquoted_arm(st, ch)
    ELSE [st EXCEPT !.current = Append(st.current, ch), !.pos = st.pos + 1]

tokenize_char(st) == tokenize_match(st, st.input[st.pos + 1])

\* The end of tokenize: the pending word is pushed.
tokenize_end(st) == flush(st)

RECURSIVE TokenizeRun(_)
TokenizeRun(st) ==
    IF st.pos >= Len(st.input) THEN tokenize_end(st)
    ELSE TokenizeRun(tokenize_char(st))

\* tokenize(input): it returns Ok(tokens) on every input.
tokenize(input) == TokenizeRun(TokenizeStart(input)).tokens

\* str::ends_with(ch)
EndsWith(s, ch) == s # <<>> /\ s[Len(s)] = ch

\* The for loop of is_incomplete_command from the character at k (1-based)
\* with the three flags; it returns the two quote flags.
RECURSIVE DetectScan(_, _, _, _, _)
DetectScan(s, k, single, double, backslash) ==
    IF k > Len(s) THEN [in_single |-> single, in_double |-> double]
    ELSE IF backslash THEN DetectScan(s, k + 1, single, double, FALSE)
    ELSE IF s[k] = "\\" THEN DetectScan(s, k + 1, single, double, TRUE)
    ELSE IF s[k] = "'" /\ ~double
    THEN DetectScan(s, k + 1, ~single, double, FALSE)
    ELSE IF s[k] = "\"" /\ ~single
    THEN DetectScan(s, k + 1, single, ~double, FALSE)
    ELSE DetectScan(s, k + 1, single, double, FALSE)

\* LineHelper::is_incomplete_command(line): the flags its scan ends with
\* and the value it returns.
is_incomplete_command(s) ==
    Bind(DetectScan(s, 1, FALSE, FALSE, FALSE), LAMBDA q :
        [in_single |-> q.in_single, in_double |-> q.in_double,
         incomplete |-> \/ EndsWith(TrimEnd(s), "\\")
                        \/ EndsWith(TrimEnd(s), "|")
                        \/ q.in_single \/ q.in_double])

\* The texts given to the tokenizer: every text of up to MaxLexLen
\* characters of LexChars, and the example of the specification.
LexChars == {"a", " ", "'", "\"", "|", "&", ">", "<", "\\", "~"}

Text_echo_ab_c ==
    <<"e", "c", "h", "o", " ", "\"", "a", " ", "b", "\"", " ", "c">>

\* run_repl: a line read while current_line is not empty is appended to
\* it after a newline.
join_continuation(current_line, read) == current_line \o <<"\n">> \o read

\* Commands entered on two lines, the first ending with a pipe.
ContinuedTexts ==
    {join_continuation(first, second) :
        first \in {<<"a", "|">>, <<"a", " ", "|">>},
        second \in {<<"a">>, <<"a", " ", "a">>}}

\* Words that are one command substitution, with a blank and with an
\* operator character between the parentheses.
Text_subst_blank == <<"$", "(", "a", " ", "a", ")">>
Text_subst_pipe == <<"$", "(", "a", "|", "a", ")">>
SubstTexts == {Text_subst_blank, Text_subst_pipe}

LexTexts ==
    UNION {[1..n -> LexChars] : n \in 0..MaxLexLen}
    \cup {Text_echo_ab_c} \cup ContinuedTexts \cup SubstTexts

-----------------------------------------------------------------------------
(* The recursive-descent parser (parser.rs) *)

\* The while loop of parse_simple, from index k with the argv collected so
\* far.
RECURSIVE SimpleScan(_, _, _)
SimpleScan(ts, k, argv) ==
    IF k >= Len(ts)
    THEN [ok |-> TRUE, argv |-> argv, background |-> FALSE, next |-> k]
    ELSE IF ts[k + 1].type = "Word" THEN
        Bind(expand_word_with_subst(ts[k + 1].text), LAMBDA expanded :
            IF ~expanded.ok THEN ParseErr("command substitution failed")
            ELSE Bind(expand_glob(expanded.val), LAMBDA globbed :
                SimpleScan(ts, k + 1,
                           IF globbed = <<>> THEN Append(argv, expanded.val)
                           ELSE argv \o globbed)))
    ELSE IF ts[k + 1].type = "Background"
    THEN [ok |-> TRUE, argv |-> argv, background |-> TRUE, next |-> k + 1]
    ELSE [ok |-> TRUE, argv |-> argv, background |-> FALSE, next |-> k]

\* A parse_simple that makes a node of whatever argv it collected.
parse_simple_unchecked(ts) ==
    Bind(SimpleScan(ts, 0, <<>>), LAMBDA s :
        IF ~s.ok THEN s
        ELSE Parsed(Simple(s.argv, s.background), s.next))

parse_simple(ts) ==
    IF ts = <<>> THEN ParseErr("empty command")
    ELSE Bind(SimpleScan(ts, 0, <<>>), LAMBDA s :
            IF ~s.ok THEN s
            ELSE IF s.argv = <<>> THEN ParseErr("empty command")
            ELSE Parsed(Simple(s.argv, s.background), s.next))

\* The filename after the redirect operator at index k of ts, and the index
\* past it: every arm of the loop in parse_redirect returns, with the
\* command wrapped or with an error.
RedirectArm(ts, k, what) ==
    IF k + 1 >= Len(ts)
    THEN ParseErr(<<"redirect", what, "missing filename">>)
    ELSE IF ts[k + 2].type = "Word"
    THEN [ok |-> TRUE, file |-> expand_tilde(ts[k + 2].text), next |-> k + 2]
    ELSE ParseErr(<<"redirect", what, "expected filename">>)

\* A stage parser that leaves every redirect operator to its caller.
parse_stage_without_redirect(ts) == parse_simple(ts)

parse_redirect(ts) ==
    IF ts = <<>> THEN ParseErr("empty command")
    ELSE Bind(parse_simple(ts), LAMBDA s :
            IF ~s.ok THEN s
            ELSE IF s.next < Len(ts) THEN
                IF ts[s.next + 1].type = "RedirectOut"
                THEN Bind(RedirectArm(ts, s.next, "output"), LAMBDA t :
                        IF ~t.ok THEN t
                        ELSE Parsed(RedirectOut(s.node, t.file, FALSE),
                                    t.next))
                ELSE IF ts[s.next + 1].type = "RedirectAppend"
                THEN Bind(RedirectArm(ts, s.next, "append"), LAMBDA t :
                        IF ~t.ok THEN t
                        ELSE Parsed(RedirectOut(s.node, t.file, TRUE),
                                    t.next))
                ELSE IF ts[s.next + 1].type = "RedirectIn"
                THEN Bind(RedirectArm(ts, s.next, "input"), LAMBDA t :
                        IF ~t.ok THEN t
                        ELSE Parsed(RedirectIn(s.node, t.file), t.next))
                ELSE Parsed(s.node, s.next)
            ELSE Parsed(s.node, s.next))

\* The fold of parse_pipe: Pipe{Pipe{p1, p2}, p3} ...
RECURSIVE FoldPipe(_, _)
FoldPipe(acc, rest) ==
    IF rest = <<>> THEN acc
    ELSE FoldPipe(Pipe(acc, Head(rest)), Tail(rest))

\* The while loop of parse_pipe, from index k with the stages so far.
RECURSIVE PipeScan(_, _, _)
PipeScan(ts, k, stages) ==
    IF k >= Len(ts) THEN [ok |-> TRUE, stages |-> stages, next |-> k]
    ELSE Bind(parse_redirect(SliceFrom(ts, k)), LAMBDA r :
            IF ~r.ok THEN r
            ELSE IF k + r.next < Len(ts) /\ ts[k + r.next + 1].type = "Pipe"
            THEN PipeScan(ts, k + r.next + 1, Append(stages, r.node))
            ELSE [ok |-> TRUE, stages |-> Append(stages, r.node),
                  next |-> k + r.next])

parse_pipe(ts) ==
    Bind(PipeScan(ts, 0, <<>>), LAMBDA s :
        IF ~s.ok THEN s
        ELSE IF s.stages = <<>> THEN ParseErr("empty command")
        ELSE Parsed(FoldPipe(Head(s.stages), Tail(s.stages)), s.next))

\* The fold of parse_chain: ops.into_iter().zip(parts) over the parts after
\* the first; zip stops at the shorter of the two.
RECURSIVE FoldChain(_, _, _)
FoldChain(acc, os, ps) ==
    IF os = <<>> \/ ps = <<>> THEN acc
    ELSE FoldChain(Chain(acc, Head(ps), Head(os)), Tail(os), Tail(ps))

\* The state of parse_tokens / parse_chain as a record: scan index i, the
\* parts and ops vectors, the position pc and the value returned.
NoResult == [ok |-> FALSE, msg |-> "pending"]
ParsedLine(node) == [ok |-> TRUE, node |-> node]

ChainStart ==
    [pc |-> "parse_tokens", i |-> 0, parts |-> <<>>, ops |-> <<>>,
     result |-> NoResult]

\* parse_tokens: an empty token vector is an error, otherwise parse_chain
\* is entered.
parse_tokens(ts, st) ==
    IF ts = <<>>
    THEN [st EXCEPT !.pc = "done", !.result = ParseErr("empty command")]
    ELSE [st EXCEPT !.pc = "chain_loop"]

\* One iteration of the while loop of parse_chain (taken when i < len).
\* The rest of an iteration once the part is pushed and i = next_i.
chain_operator(ts, pushed) ==
    IF pushed.i < Len(ts) THEN
        IF ts[pushed.i + 1].type = "And"
        THEN [pushed EXCEPT !.ops = Append(pushed.ops, TRUE),
                            !.i = pushed.i + 1]
        ELSE IF ts[pushed.i + 1].type = "Or"
        THEN [pushed EXCEPT !.ops = Append(pushed.ops, FALSE),
                            !.i = pushed.i + 1]
        ELSE [pushed EXCEPT !.pc = "chain_fold"]
    ELSE pushed

\* The index parse_chain continues from after parse_pipe(&tokens[i..])
\* returned next_i.
chain_next_index(at, next_i) == next_i

chain_iteration(ts, st) ==
    Bind(parse_pipe(SliceFrom(ts, st.i)), LAMBDA r :
        IF ~r.ok THEN [st EXCEPT !.pc = "done", !.result = r]
        ELSE chain_operator(ts,
                [st EXCEPT !.parts = Append(st.parts, r.node),
                           !.i = chain_next_index(st.i, r.next)]))

\* The end of parse_chain: the fold of the parts into Chain nodes.
chain_fold(st) ==
    IF st.parts = <<>>
    THEN [st EXCEPT !.pc = "done", !.result = ParseErr("empty command")]
    ELSE [st EXCEPT !.pc = "done",
                    !.result = ParsedLine(FoldChain(Head(st.parts), st.ops,
                                                    Tail(st.parts)))]

\* parse_command_line run to its end on the token vector ts.  The loop of
\* parse_chain need not end; a run whose parts vector reaches MaxParts is
\* reported with pc = "chain_loop" (the call has not returned).
RECURSIVE ParseRun(_, _)
ParseRun(ts, st) ==
    IF st.pc = "done" THEN st
    ELSE IF st.pc = "parse_tokens" THEN ParseRun(ts, parse_tokens(ts, st))
    ELSE IF st.pc = "chain_fold" THEN ParseRun(ts, chain_fold(st))
    ELSE IF st.i >= Len(ts) THEN ParseRun(ts, chain_fold(st))
    ELSE IF Len(st.parts) >= MaxParts THEN st
    ELSE ParseRun(ts, chain_iteration(ts, st))

parse_command_line(ts) == ParseRun(ts, ChainStart)

-----------------------------------------------------------------------------
(* Processes and the builtin dispatcher *)

\* std::process::ExitStatus
Exited(code) == [signaled |-> FALSE, code |-> code]
\* The status of a child ended by a signal: ExitStatus::code() is None.
Signaled == [signaled |-> TRUE, code |-> 0]
success(st) == ~st.signaled /\ st.code = 0
\* status.code().unwrap_or(d)
code_or(st, d) == IF st.signaled THEN d ELSE st.code

RECURSIVE JoinSpace(_)
JoinSpace(args) ==
    IF args = <<>> THEN <<>>
    ELSE IF Len(args) = 1 THEN Head(args)
    ELSE Head(args) \o <<" ">> \o JoinSpace(Tail(args))

\* What the operating system does with Command::new(argv[0]).args(argv[1..])
\* when the child reads stdin: whether it can be spawned, the bytes it
\* writes to its standard output and its exit status.
Program(argv, stdin) ==
    LET run(st, out) == [spawn |-> "ok", status |-> st, stdout |-> out] IN
    IF argv[1] = S_true THEN run(Exited(0), <<>>)
    ELSE IF argv[1] = S_false THEN run(Exited(1), <<>>)
    ELSE IF argv[1] = S_ex3 THEN run(Exited(3), <<>>)
    ELSE IF argv[1] = S_sleep THEN run(Exited(0), <<>>)
    ELSE IF argv[1] = S_segv THEN run(Signaled, <<>>)
    ELSE IF argv[1] = S_echo
    THEN run(Exited(0), JoinSpace(Tail(argv)) \o <<"\n">>)
    ELSE IF argv[1] = S_cat THEN run(Exited(0), stdin)
    ELSE IF argv[1] = S_noexec
    THEN [spawn |-> "PermissionDenied", status |-> Exited(0), stdout |-> <<>>]
    ELSE [spawn |-> "NotFound", status |-> Exited(0), stdout |-> <<>>]

\* What a child reads from the shell's own standard input (the terminal).
TerminalInput == <<>>

\* The world an evaluation acts on: the job table, the file system and the
\* log of what was started.  An event's via names the call that started the
\* command: "direct" (run_external_command, waits), "capture" and
\* "pipe_stage" (Command::output, waits), "with_input" (spawn then wait),
\* "background" (spawn, no wait).
Event(kind, via, argv, stdin, status, stdout) ==
    [kind |-> kind, via |-> via, argv |-> argv, stdin |-> stdin,
     status |-> status, stdout |-> stdout]

Log(w, e) == [w EXCEPT !.events = Append(w.events, e)]

\* Bytes written to the shell's own standard output.
Shown(w, bytes) == [w EXCEPT !.terminal = w.terminal \o bytes]

\* The calls that start a child with Stdio::inherit() for its standard
\* output (a background child gets no stdout setting and inherits too).
InheritsStdout(via) ==
    via \in {"direct", "with_input", "timed", "background"}

\* A child started through via with the given standard input.
Spawned(w, via, argv, stdin) ==
    Bind(Program(argv, stdin), LAMBDA p :
        Log(IF p.spawn = "ok" /\ InheritsStdout(via)
            THEN Shown(w, p.stdout) ELSE w,
            Event(IF p.spawn = "ok" THEN "spawn" ELSE "spawn_failed",
                  via, argv, stdin, p.status, p.stdout)))

Ok(status) == [ok |-> TRUE, status |-> status]
Captured(out) == [ok |-> TRUE, out |-> out]
Err(kind, detail) == [ok |-> FALSE, kind |-> kind, detail |-> detail]
Ret(res, w) == [res |-> res, w |-> w]

\* The header and the entries fancy_list_capture writes for directory ".".
RECURSIVE ListingOf(_, _)
ListingOf(names, fs) ==
    IF names = <<>> THEN <<>>
    ELSE (IF fs[Head(names)].exists THEN Head(names) \o <<"\n">> ELSE <<>>)
         \o ListingOf(Tail(names), fs)

fancy_list_capture(dir, fs) ==
    IF dir = S_dot
    THEN [ok |-> TRUE, code |-> 0,
          output |-> <<"T", "\n">> \o ListingOf(FileNames, fs)]
    ELSE [ok |-> FALSE, code |-> 1, output |-> <<>>]

Handled(status) ==
    [kind |-> "Handled", status |-> status, output |-> <<>>]
HandledWithOutput(status, output) ==
    [kind |-> "HandledWithOutput", status |-> status, output |-> output]
NotHandled == [kind |-> "NotHandled", status |-> 0, output |-> <<>>]

\* try_handle_builtin for the builtins export, unset, ll, jobs, fg and bg.
try_handle_builtin(argv, fs) ==
    IF argv = <<>> THEN Handled(0)
    ELSE IF argv[1] = S_export THEN
        IF Len(argv) = 1 THEN Handled(0)
        ELSE IF \A k \in 2..Len(argv) : Contains(argv[k], "=")
        THEN Handled(0)
        ELSE Handled(1)
    ELSE IF argv[1] = S_unset THEN
        IF Len(argv) < 2 THEN Handled(1) ELSE Handled(0)
    ELSE IF argv[1] = S_ll THEN
        Bind(fancy_list_capture(
                expand_tilde(IF Len(argv) >= 2 THEN argv[2] ELSE S_dot), fs),
             LAMBDA listed :
                IF listed.ok
                THEN HandledWithOutput(listed.code, listed.output)
                ELSE Handled(1))
    ELSE NotHandled

\* The dispatcher consulted through via: its answer, and the world with the
\* invocation logged when the dispatcher handled the command.
Dispatch(argv, via, w) ==
    Bind(try_handle_builtin(argv, w.files), LAMBDA b :
        [b |-> b,
         w |-> IF b.kind = "NotHandled" THEN w
               ELSE Log(w, Event("builtin", via, argv, <<>>,
                                 Exited(b.status), b.output))])

-----------------------------------------------------------------------------
(* The job table (jobs.rs) *)

\* A child whose exit the shell has already waited for.
ChildAwaited(argv, status) ==
    [some |-> TRUE, exited |-> TRUE, argv |-> argv, status |-> status]

\* A running child: its argv, and the status it will exit with.
Child(argv, status) ==
    [some |-> TRUE, exited |-> FALSE, argv |-> argv, status |-> status]
NoChild == [some |-> FALSE]

Job(id, command, child) == [id |-> id, command |-> command, child |-> child]

\* A table that numbers a new job by its position in the table.
add_job_by_position(w, command, child) ==
    [id |-> Len(w.jobs) + 1,
     w |-> [w EXCEPT !.jobs = Append(w.jobs,
                                     Job(Len(w.jobs) + 1, command, child)),
                     !.issued = Append(w.issued, Len(w.jobs) + 1)]]

\* issued is the history of the ids add_job has returned.
add_job(w, command, child) ==
    [id |-> w.next_id,
     w |-> [w EXCEPT !.next_id = w.next_id + 1,
                     !.jobs = Append(w.jobs, Job(w.next_id, command, child)),
                     !.issued = Append(w.issued, w.next_id)]]

\* A sweep that evicts only the jobs whose process has exited.
remove_exited_only(js) ==
    SelectSeq(js, LAMBDA j : ~j.child.some \/ ~j.child.exited)

\* jobs.retain(..): a job is kept when it holds a child that try_wait finds
\* still running.
remove_finished(js) == SelectSeq(js, LAMBDA j : j.child.some /\ ~j.child.exited)

\* A lookup that answers with the first job of the table whatever the id.
get_job_first(js, id) == IF js = <<>> THEN 0 ELSE 1

\* get_job: the position of the first job with this id, 0 when there is none.
get_job(js, id) ==
    IF \E k \in 1..Len(js) : js[k].id = id
    THEN CHOOSE k \in 1..Len(js) :
            js[k].id = id /\ \A m \in 1..(k - 1) : js[m].id # id
    ELSE 0

\* s.parse::<usize>() on a string of decimal digits.
DigitChars == <<"0", "1", "2", "3", "4", "5", "6", "7", "8", "9">>
IsDigit(ch) == \E d \in 1..Len(DigitChars) : DigitChars[d] = ch
DigitVal(ch) == (CHOOSE d \in 1..Len(DigitChars) : DigitChars[d] = ch) - 1

RECURSIVE DigitsValue(_, _)
DigitsValue(s, acc) ==
    IF s = <<>> THEN acc
    ELSE DigitsValue(Tail(s), acc * 10 + DigitVal(Head(s)))

parse_usize(s) ==
    IF s # <<>> /\ \A k \in 1..Len(s) : IsDigit(s[k])
    THEN [ok |-> TRUE, val |-> DigitsValue(s, 0)]
    ELSE [ok |-> FALSE, val |-> 0]

-----------------------------------------------------------------------------
(* The executor (shell.rs).  Every operation takes the world w and returns *)
(* Ret(result, world after).                                               *)

\* exec.rs: the child inherits the shell's standard input.
run_external_command(argv, w) ==
    Bind(Program(argv, TerminalInput), LAMBDA p :
    Bind(Spawned(w, "direct", argv, TerminalInput), LAMBDA w1 :
        IF p.spawn = "ok" THEN Ret(Ok(code_or(p.status, 0)), w1)
        ELSE IF p.spawn = "NotFound"
        THEN Ret(Err("CommandNotFound", argv[1]), w1)
        ELSE Ret(Err("ExecFailed", argv[1]), w1)))

\* The lines printed by the jobs builtin, as <<id, state>> pairs.
JobListing(js) ==
    [k \in 1..Len(js) |->
        <<js[k].id, IF js[k].child.some THEN "Running" ELSE "Done">>]

\* The jobs builtin: sweep, then list.
execute_jobs(argv, w) ==
    Bind(remove_finished(w.jobs), LAMBDA swept :
        Ret(Ok(0), Log([w EXCEPT !.jobs = swept],
                       Event("jobs", "direct", argv, <<>>, Exited(0),
                             JobListing(swept)))))

\* The id fg is asked for: argv[1] parsed, 1 when absent or not a number.
fg_id(argv) ==
    IF Len(argv) >= 2 /\ parse_usize(argv[2]).ok
    THEN parse_usize(argv[2]).val
    ELSE 1

\* An fg that waits for the child and leaves the handle in the job.
execute_fg_keeping(argv, w) ==
    Bind(get_job(w.jobs, fg_id(argv)), LAMBDA k :
        IF k # 0 /\ w.jobs[k].child.some
        THEN Ret(Ok(code_or(w.jobs[k].child.status, 1)),
                 Log(w, Event("wait", "fg", w.jobs[k].child.argv, <<>>,
                              w.jobs[k].child.status, <<>>)))
        ELSE Ret(Ok(1), w))

\* The fg builtin: take the child out of the job and wait for it.
execute_fg(argv, w) ==
    Bind(get_job(w.jobs, fg_id(argv)), LAMBDA k :
        IF k # 0 /\ w.jobs[k].child.some
        THEN Ret(Ok(code_or(w.jobs[k].child.status, 1)),
                 Log([w EXCEPT !.jobs[k].child = NoChild],
                     Event("wait", "fg", w.jobs[k].child.argv, <<>>,
                           w.jobs[k].child.status, <<>>)))
        ELSE Ret(Ok(1), w))

\* The background branch: spawn, register the job, do not wait.
execute_background(argv, w) ==
    Bind(Program(argv, TerminalInput), LAMBDA p :
    Bind(Spawned(w, "background", argv, TerminalInput), LAMBDA w1 :
        IF p.spawn # "ok" THEN Ret(Err("ExecFailed", argv[1]), w1)
        ELSE Ret(Ok(0),
                 add_job(w1, argv[1] \o <<" ">> \o JoinSpace(Tail(argv)),
                         Child(argv, p.status)).w)))

\* A foreground branch that hands the spawn error to its caller.
execute_foreground_unmapped(argv, w) == run_external_command(argv, w)

\* The foreground branch: spawn failures become the statuses 127 and 126.
execute_foreground(argv, w) ==
    Bind(run_external_command(argv, w), LAMBDA r :
        IF r.res.ok THEN r
        ELSE IF r.res.kind = "CommandNotFound" THEN Ret(Ok(127), r.w)
        ELSE IF r.res.kind = "ExecFailed" THEN Ret(Ok(126), r.w)
        ELSE Ret(Ok(1), r.w))

\* execute_external_with_timing: spawn with inherited standard streams and
\* wait4; a spawn failure is returned as the error it is.
execute_external_with_timing(argv, w) ==
    Bind(Program(argv, TerminalInput), LAMBDA p :
    Bind(Spawned(w, "timed", argv, TerminalInput), LAMBDA w1 :
        IF p.spawn = "ok" THEN Ret(Ok(code_or(p.status, 1)), w1)
        ELSE IF p.spawn = "NotFound"
        THEN Ret(Err("CommandNotFound", argv[1]), w1)
        ELSE Ret(Err("ExecFailed", argv[1]), w1)))

\* The last branch of execute_with_timing: the dispatcher is called a
\* second time and its status taken; run_external_command(..).unwrap_or(1)
\* when it does not handle the command.
timing_builtin_again(argv, w) ==
    Bind(Dispatch(argv, "direct", w), LAMBDA d :
        IF d.b.kind # "NotHandled" THEN Ret(Ok(d.b.status), d.w)
        ELSE Bind(run_external_command(argv, w), LAMBDA r :
                Ret(Ok(IF r.res.ok THEN r.res.status ELSE 1), r.w)))

RECURSIVE execute_simple(_, _, _)

\* execute_with_timing: the dispatcher tells whether the command is
\* external; an external foreground command is spawned and timed, a
\* background command goes to execute_simple, and a builtin is run again
\* for its status.
execute_with_timing(argv, background, w) ==
    IF argv = <<>> THEN Ret(Ok(0), w)
    ELSE Bind(Dispatch(argv, "timing", w), LAMBDA d :
            IF d.b.kind = "NotHandled" /\ ~background
            THEN execute_external_with_timing(argv, d.w)
            ELSE IF background THEN execute_simple(argv, background, d.w)
            ELSE timing_builtin_again(argv, d.w))

\* The time arm of execute_simple.
execute_time(argv, background, w) ==
    IF Len(argv) < 2 THEN Ret(Ok(1), w)
    ELSE execute_with_timing(Tail(argv), background, w)

execute_simple(argv, background, w) ==
    IF argv = <<>> THEN Ret(Ok(0), w)
    ELSE IF argv[1] = S_time THEN execute_time(argv, background, w)
    ELSE IF argv[1] = S_jobs THEN execute_jobs(argv, w)
    ELSE IF argv[1] = S_fg THEN execute_fg(argv, w)
    ELSE IF argv[1] = S_bg THEN Ret(Ok(0), w)
    ELSE Bind(Dispatch(argv, "direct", w), LAMBDA d :
            IF d.b.kind # "NotHandled" THEN Ret(Ok(d.b.status), d.w)
            ELSE IF background THEN execute_background(argv, w)
            ELSE execute_foreground(argv, w))

CommandFailed(st) ==
    Err("Other", <<"command failed with status", code_or(st, -1)>>)

\* build_command_for_pipe: only a Simple node with a non-empty argv yields a
\* command; the input is not used.
build_command_for_pipe(cmd, input) ==
    IF cmd.type = "Simple" THEN
        IF cmd.argv = <<>> THEN Err("Other", "empty command in pipe")
        ELSE [ok |-> TRUE, argv |-> cmd.argv]
    ELSE Err("Other", "complex commands in pipes not fully supported")

\* The standard input of a child started by Command::output(): closed at
\* once, whether it was left unset or set to a pipe nothing is written to.
ClosedInput == <<>>

\* command.output() and the check of its status, in capture_output: the
\* child started through via reads stdin; a spawn failure is the error
\* spawn_err.
capture_child(argv, via, stdin, spawn_err, w) ==
    Bind(Program(argv, stdin), LAMBDA p :
    Bind(Spawned(w, via, argv, stdin), LAMBDA w1 :
        IF p.spawn # "ok" THEN Ret(Err(spawn_err, argv[1]), w1)
        ELSE IF ~success(p.status) THEN Ret(CommandFailed(p.status), w1)
        ELSE Ret(Captured(p.stdout), w1)))

\* What the Simple arm of capture_output makes of the dispatcher's answer.
capture_builtin(b, w) ==
    IF b.kind = "Handled" THEN Ret(Captured(<<>>), w)
    ELSE Ret(Captured(b.output), w)

\* The standard input the right-hand stage of the Pipe arm of
\* capture_output reads, when the left side wrote left_out.
pipe_stage_stdin(left_out) == ClosedInput

RECURSIVE capture_output(_, _)
capture_output(cmd, w) ==
    IF cmd.type = "Simple" THEN
        IF cmd.argv = <<>> THEN Ret(Captured(<<>>), w)
        ELSE Bind(Dispatch(cmd.argv, "capture", w), LAMBDA d :
                IF d.b.kind # "NotHandled" THEN capture_builtin(d.b, d.w)
                ELSE capture_child(cmd.argv, "capture", ClosedInput,
                                   "ExecFailed", w))
    ELSE IF cmd.type = "Pipe" THEN
        Bind(capture_output(cmd.left, w), LAMBDA l :
            IF ~l.res.ok THEN l
            ELSE Bind(build_command_for_pipe(cmd.right, l.res.out),
                      LAMBDA command :
                    IF ~command.ok THEN Ret(command, l.w)
                    ELSE capture_child(command.argv, "pipe_stage",
                                       pipe_stage_stdin(l.res.out), "Io",
                                       l.w)))
    ELSE IF cmd.type \in {"RedirectOut", "RedirectIn"}
    THEN capture_output(cmd.cmd, w)
    ELSE capture_output(cmd.left, w)

\* The Simple arm of execute_with_input for an external command: the input
\* is written to the child's standard input, then the child is awaited.
input_child(argv, input, w) ==
    Bind(Program(argv, input), LAMBDA p :
    Bind(Spawned(w, "with_input", argv, input), LAMBDA w1 :
        IF p.spawn # "ok" THEN Ret(Err("ExecFailed", argv[1]), w1)
        ELSE Ret(Ok(code_or(p.status, 1)), w1)))

\* A chain that evaluates its right side whatever the left status is.
run_right_regardless(and, left_status) == TRUE

\* if and { left_status == 0 } else { left_status != 0 }
should_run_right(and, left_status) ==
    IF and THEN left_status = 0 ELSE left_status # 0

RECURSIVE execute_with_input(_, _, _)
execute_with_input(cmd, input, w) ==
    IF cmd.type = "Simple" THEN
        IF cmd.argv = <<>> THEN Ret(Ok(0), w)
        ELSE Bind(Dispatch(cmd.argv, "with_input", w), LAMBDA d :
                IF d.b.kind # "NotHandled" THEN Ret(Ok(d.b.status), d.w)
                ELSE input_child(cmd.argv, input, w))
    ELSE IF cmd.type = "Pipe" THEN
        Bind(capture_output(cmd.left, w), LAMBDA l :
            IF ~l.res.ok THEN l
            ELSE execute_with_input(cmd.right, l.res.out, l.w))
    ELSE IF cmd.type \in {"RedirectOut", "RedirectIn"}
    THEN execute_with_input(cmd.cmd, input, w)
    ELSE Bind(execute_with_input(cmd.left, input, w), LAMBDA l :
            IF ~l.res.ok THEN l
            ELSE IF should_run_right(cmd.and, l.res.status)
            THEN execute_with_input(cmd.right, input, l.w)
            ELSE l)

execute_pipe(left, right, w) ==
    Bind(capture_output(left, w), LAMBDA l :
        IF ~l.res.ok THEN l
        ELSE execute_with_input(right, l.res.out, l.w))

\* A file that keeps its previous content whatever the append flag is.
written_file_keeping(old, append, output) == FileOf(old.data \o output)

\* The file after OpenOptions .create(true).write(true).append(append)
\* .truncate(!append) and write_all(output).
written_file(old, append, output) ==
    FileOf((IF append THEN old.data ELSE <<>>) \o output)

\* A redirect that opens its target before it runs the inner command.
execute_redirect_out_eager(cmd, file, append, w) ==
    IF file \notin FileSet THEN Ret(Err("Other", "cannot open"), w)
    ELSE Bind(capture_output(cmd,
                [w EXCEPT !.files[file] =
                    written_file(w.files[file], append, <<>>)]),
              LAMBDA c :
                IF ~c.res.ok THEN c
                ELSE Ret(Ok(0),
                         [c.w EXCEPT !.files[file] =
                             written_file(c.w.files[file], TRUE, c.res.out)]))

\* A name of FileSet can be opened for writing; any other target stands for
\* a path open() rejects (a directory).
execute_redirect_out(cmd, file, append, w) ==
    Bind(capture_output(cmd, w), LAMBDA c :
        IF ~c.res.ok THEN c
        ELSE IF file \notin FileSet
        THEN Ret(Err("Other", "cannot open"), c.w)
        ELSE Ret(Ok(0),
                 [c.w EXCEPT !.files[file] =
                     written_file(c.w.files[file], append, c.res.out)]))

execute_redirect_in(cmd, file, w) ==
    IF file \notin FileSet \/ ~w.files[file].exists
    THEN Ret(Err("Other", "cannot open"), w)
    ELSE execute_with_input(cmd, w.files[file].data, w)

RECURSIVE execute_command(_, _)

execute_chain(left, right, and, w) ==
    Bind(execute_command(left, w), LAMBDA l :
        IF ~l.res.ok THEN l
        ELSE IF should_run_right(and, l.res.status)
        THEN execute_command(right, l.w)
        ELSE l)

execute_command(cmd, w) ==
    IF cmd.type = "Simple" THEN execute_simple(cmd.argv, cmd.background, w)
    ELSE IF cmd.type = "Pipe" THEN execute_pipe(cmd.left, cmd.right, w)
    ELSE IF cmd.type = "RedirectOut"
    THEN execute_redirect_out(cmd.cmd, cmd.file, cmd.append, w)
    ELSE IF cmd.type = "RedirectIn"
    THEN execute_redirect_in(cmd.cmd, cmd.file, w)
    ELSE execute_chain(cmd.left, cmd.right, cmd.and, w)

\* What run_line makes of execute_command's result r when last_status was
\* status: the new last_status and whether run_line returned Ok.
line_outcome(r, status) ==
    [returned |-> TRUE,
     last_status |-> IF r.res.ok THEN r.res.status ELSE status,
     returned_ok |-> r.res.ok, res |-> r.res, w |-> r.w]

\* Shell::run_line on an alias-expanded, tokenized line: whether it
\* returned at all (it does not when the loop of parse_chain does not end),
\* the value of last_status afterwards, whether it returned Ok, and the
\* world.
run_line(ts, status, w) ==
    Bind(parse_command_line(ts), LAMBDA st :
        IF st.pc # "done"
        THEN [returned |-> FALSE, last_status |-> status,
              returned_ok |-> FALSE, res |-> NoResult, w |-> w]
        ELSE IF ~st.result.ok
        THEN [returned |-> TRUE, last_status |-> 1, returned_ok |-> TRUE,
              res |-> st.result, w |-> w]
        ELSE line_outcome(execute_command(st.result.node, w), status))

-----------------------------------------------------------------------------
(* The alias table (aliases.rs) and the alias builtins (shell.rs)          *)

S_l == <<"l">>
S_alias == <<"a", "l", "i", "a", "s">>
S_unalias == <<"u", "n", "a", "l", "i", "a", "s">>
V_ls_la == <<"l", "s", " ", "-", "l", "a">>
V_ll_a == <<"l", "l", " ", "-", "a">>
V_its == <<"i", "t", "'", "s">>
V_dq == <<"a", "\"", "b">>
V_open == <<"'", "a">>
V_quote == <<"'">>

\* The characters of the modelled texts in the order of their code points,
\* which is the order String compares by.
CharOrder ==
    <<"\t", " ", "\"", "#", "'", "-", "=", "\\", "a", "b", "i", "l", "s",
      "t", "x">>

Ord(ch) == CHOOSE k \in 1..Len(CharOrder) : CharOrder[k] = ch

RECURSIVE StrLess(_, _)
StrLess(a, b) ==
    IF b = <<>> THEN FALSE
    ELSE IF a = <<>> THEN TRUE
    ELSE IF Head(a) = Head(b) THEN StrLess(Tail(a), Tail(b))
    ELSE Ord(Head(a)) < Ord(Head(b))

\* str::trim
Trim(s) == TrimEnd(TrimStart(s))

\* str::starts_with(prefix)
StartsWith(s, prefix) ==
    Len(s) >= Len(prefix) /\ SubSeq(s, 1, Len(prefix)) = prefix

\* str::split_whitespace, collected: cur is the word being read.
RECURSIVE SplitScan(_, _, _)
SplitScan(s, cur, out) ==
    IF s = <<>> THEN (IF cur = <<>> THEN out ELSE Append(out, cur))
    ELSE IF IsSpace(Head(s))
    THEN SplitScan(Tail(s), <<>>, IF cur = <<>> THEN out ELSE Append(out, cur))
    ELSE SplitScan(Tail(s), Append(cur, Head(s)), out)

split_whitespace(s) == SplitScan(s, <<>>, <<>>)

\* [String]::join(" ")
RECURSIVE join(_)
join(ps) ==
    IF ps = <<>> THEN <<>>
    ELSE IF Len(ps) = 1 THEN ps[1]
    ELSE ps[1] \o <<" ">> \o join(Tail(ps))

\* The position of the first ch in s (1-based), 0 when there is none.
RECURSIVE FindFrom(_, _, _)
FindFrom(s, ch, k) ==
    IF k > Len(s) THEN 0
    ELSE IF s[k] = ch THEN k
    ELSE FindFrom(s, ch, k + 1)

\* &s[a..b] of an ASCII string: it panics unless a <= b <= len.
str_slice(s, a, b) ==
    IF a <= b /\ b <= Len(s)
    THEN [ok |-> TRUE, val |-> SubSeq(s, a + 1, b)]
    ELSE [ok |-> FALSE, val |-> <<>>]

\* The table is a function from the names defined to their values.
NoAliases == [n \in {} |-> <<>>]

insert(t, name, value) ==
    [n \in DOMAIN t \cup {name} |-> IF n = name THEN value ELSE t[n]]

remove(t, name) == [n \in DOMAIN t \ {name} |-> t[n]]

\* AliasManager::get
get(t, name) ==
    IF name \in DOMAIN t THEN [some |-> TRUE, val |-> t[name]]
    ELSE [some |-> FALSE, val |-> <<>>]

\* The if-let of expand on the words ps of the text: the value of the
\* alias the first word names, then the other words.
alias_substitution(t, ps, text) ==
    IF ~get(t, ps[1]).some THEN text
    ELSE IF Len(ps) > 1
    THEN get(t, ps[1]).val \o <<" ">> \o join(Tail(ps))
    ELSE get(t, ps[1]).val

\* An expansion that expands what it substituted once more.
expand_again(t, text) ==
    Bind(split_whitespace(text), LAMBDA ps :
        IF ps = <<>> THEN text
        ELSE Bind(alias_substitution(t, ps, text), LAMBDA once :
                IF split_whitespace(once) = <<>> THEN once
                ELSE alias_substitution(t, split_whitespace(once), once)))

\* AliasManager::expand
expand(t, text) ==
    Bind(split_whitespace(text), LAMBDA ps :
        IF ps = <<>> THEN text
        ELSE alias_substitution(t, ps, text))

\* value.replace('\'', "'\\''")
RECURSIVE replace_quote(_)
replace_quote(s) ==
    IF s = <<>> THEN <<>>
    ELSE IF Head(s) = "'"
    THEN <<"'", "\\", "'", "'">> \o replace_quote(Tail(s))
    ELSE <<Head(s)>> \o replace_quote(Tail(s))

\* The text save_to_file writes for a value.
escaped(value) ==
    IF Contains(value, " ") \/ Contains(value, "'") \/ Contains(value, "\"")
    THEN <<"'">> \o replace_quote(value) \o <<"'">>
    ELSE value

\* sorted.sort_by_key(|(k, _)| *k)
min_name(names) ==
    CHOOSE x \in names : \A y \in names : y = x \/ StrLess(x, y)

RECURSIVE sorted_names(_)
sorted_names(names) ==
    IF names = {} THEN <<>>
    ELSE <<min_name(names)>> \o sorted_names(names \ {min_name(names)})

alias_line(t, name) ==
    S_alias \o <<" ">> \o name \o <<"=">> \o escaped(t[name])

FileHeader ==
    <<  <<"#", " ", "a">>, <<"#", " ", "b">>, <<>> >>

\* The alias file is a sequence of lines; the two comment lines of the
\* header are shortened.
NoAliasFile == [exists |-> FALSE, lines |-> <<>>]

save_to_file(t) ==
    [exists |-> TRUE,
     lines |-> FileHeader \o
               [k \in 1..Cardinality(DOMAIN t) |->
                    alias_line(t, sorted_names(DOMAIN t)[k])]]

\* The two loops of parse_alias_line: the name up to the first '=', then
\* the value, up to the closing quote when it opens with one.
alias_line_name(text, eq) ==
    IF eq = 0 THEN text ELSE SubSeq(text, 1, eq - 1)

alias_line_rest(text, eq) ==
    IF eq = 0 THEN <<>> ELSE SubSeq(text, eq + 1, Len(text))

alias_line_value(rest) ==
    IF rest # <<>> /\ rest[1] \in {"'", "\""}
    THEN CaptureUntil(rest, 2, rest[1], <<>>).text
    ELSE rest

parse_alias_line(text) ==
    Bind(FindFrom(text, "=", 1), LAMBDA eq :
        IF alias_line_name(text, eq) = <<>>
        THEN [some |-> FALSE, name |-> <<>>, value |-> <<>>]
        ELSE [some |-> TRUE, name |-> Trim(alias_line_name(text, eq)),
              value |-> Trim(alias_line_value(alias_line_rest(text, eq)))])

\* The body of the loop of load_from_file for one line of the file.
load_line(t, raw) ==
    Bind(Trim(raw), LAMBDA trimmed :
        IF trimmed = <<>> \/ Head(trimmed) = "#" THEN t
        ELSE IF ~StartsWith(trimmed, S_alias \o <<" ">>) THEN t
        ELSE Bind(parse_alias_line(SubSeq(trimmed, 7, Len(trimmed))),
                  LAMBDA p : IF p.some THEN insert(t, p.name, p.value)
                             ELSE t))

RECURSIVE load_lines(_, _)
load_lines(t, lines) ==
    IF lines = <<>> THEN t
    ELSE load_lines(load_line(t, Head(lines)), Tail(lines))

\* load_from_file: a file that cannot be opened leaves the table as it is.
load_from_file(t, file) ==
    IF ~file.exists THEN t ELSE load_lines(t, file.lines)

\* The manager is its table and the file its config_path names.
Manager(t, file) == [aliases |-> t, file |-> file]

\* AliasManager::new
new_manager(file) == Manager(load_from_file(NoAliases, file), file)

\* AliasManager::set
set(m, name, value) ==
    Manager(insert(m.aliases, name, value),
            save_to_file(insert(m.aliases, name, value)))

\* AliasManager::unset
unset(m, name) ==
    IF name \in DOMAIN m.aliases
    THEN [removed |-> TRUE,
          m |-> Manager(remove(m.aliases, name),
                        save_to_file(remove(m.aliases, name)))]
    ELSE [removed |-> FALSE, m |-> m]

\* What an arm of execute_simple left: the status it returned, or a panic,
\* and the manager.
AliasRet(status, m) == [panicked |-> FALSE, status |-> status, m |-> m]
AliasPanic(m) == [panicked |-> TRUE, status |-> 0, m |-> m]

\* The quotes the alias arm removes: one layer when both ends are the same
\* quote character.
is_quoted(value) ==
    \/ StartsWith(value, <<"'">>) /\ value[Len(value)] = "'"
    \/ StartsWith(value, <<"\"">>) /\ value[Len(value)] = "\""

strip_quotes(value) ==
    IF is_quoted(value) THEN str_slice(value, 1, Len(value) - 1)
    ELSE [ok |-> TRUE, val |-> value]

\* The arm "alias" of execute_simple.
alias_define(def, eq, m) ==
    Bind(strip_quotes(Trim(SubSeq(def, eq + 1, Len(def)))), LAMBDA v :
        IF ~v.ok THEN AliasPanic(m)
        ELSE AliasRet(0, set(m, Trim(SubSeq(def, 1, eq - 1)), v.val)))

execute_alias(argv, m) ==
    IF Len(argv) = 1 THEN AliasRet(0, m)
    ELSE Bind(join(Tail(argv)), LAMBDA def :
            IF FindFrom(def, "=", 1) = 0 THEN AliasRet(1, m)
            ELSE alias_define(def, FindFrom(def, "=", 1), m))

\* The arm "unalias" of execute_simple: the loop over the names.
RECURSIVE unalias_loop(_, _, _)
unalias_loop(names, status, m) ==
    IF names = <<>> THEN AliasRet(status, m)
    ELSE unalias_loop(Tail(names),
                      IF unset(m, Head(names)).removed THEN status ELSE 1,
                      unset(m, Head(names)).m)

execute_unalias(argv, m) ==
    IF Len(argv) < 2 THEN AliasRet(1, m)
    ELSE unalias_loop(Tail(argv), 0, m)

\* The names, values, command lines and texts the alias table is driven
\* with.
AliasNames == {S_ll, S_l}

AliasValues ==
    {<<>>, V_ls_la, V_ll_a, S_l, S_ll, V_its, V_dq, V_open, V_quote}

AliasArgvs ==
    {<<S_alias>>,
     <<S_alias, S_l>>,
     <<S_alias, <<"l", "=">> >>,
     <<S_alias, <<"l", "l", "=", "l", "s">>, <<"-", "l", "a">> >>,
     <<S_alias, <<"l", "=", "'", "l", "l", "'">> >>,
     <<S_alias, <<"l", "=", "\"", "l", "l", "\"">> >>,
     <<S_alias, <<"l", "=", "'", "a">> >>,
     <<S_alias, <<"l", "=", "'", "a", "\"">> >>,
     <<S_alias, <<"l", "=", "'", "'">> >>,
     <<S_alias, <<"l", "=", "'">> >>,
     <<S_alias, <<"l", "=", "\"">> >>}

UnaliasArgvs ==
    {<<S_unalias>>, <<S_unalias, S_l>>, <<S_unalias, S_ll, S_l>>}

ExpandTexts ==
    UNION {[1..n -> {"l", " "}] : n \in 0..MaxTextLen}

-----------------------------------------------------------------------------
(* The lines given to the parser and to the shell *)

OperatorTokens ==
    {TPipe, TRedirectOut, TRedirectAppend, TRedirectIn, TAnd, TOr,
     TBackground}

TokenAlphabet == {Word(S_a), Word(S_b)} \cup OperatorTokens

Line_and_or == <<Word(S_a), TAnd, Word(S_b), TOr, Word(S_c)>>
Line_and_two_or ==
    <<Word(S_a), TAnd, Word(S_b), Word(S_c), TOr, Word(S_d)>>
Line_ls_grep ==
    <<Word(S_ls), TPipe, Word(S_grep), Word(S_foo), TRedirectOut,
      Word(S_out_txt)>>
Line_pipe3_out ==
    <<Word(S_a), TPipe, Word(S_b), TPipe, Word(S_c), TRedirectOut,
      Word(S_f)>>
Line_cmd_out_in ==
    <<Word(S_cmd), TRedirectOut, Word(S_a), TRedirectIn, Word(S_b)>>
Line_cmd_out == <<Word(S_cmd), TRedirectOut, Word(S_out_txt)>>
Line_cmd_append == <<Word(S_cmd), TRedirectAppend, Word(S_out_txt)>>

ExampleLines ==
    {Line_and_or, Line_and_two_or, Line_ls_grep, Line_pipe3_out,
     Line_cmd_out_in, Line_cmd_out, Line_cmd_append}

EnumeratedLines(n) == [1..n -> TokenAlphabet]

\* Lines with words that expand: glob patterns and an unset variable.
W_star == <<"*">>
W_star_n == <<"*", ".", "n">>
W_unset_var == <<"$", "X">>

GlobLines ==
    {<<Word(S_echo), Word(W_star)>>, <<Word(W_star_n)>>,
     <<Word(W_unset_var)>>, <<Word(W_unset_var), Word(W_star), TBackground>>,
     <<Word(S_echo), Word(W_star_n), TPipe, Word(W_star)>>}

\* Commands of the shell's lines, as token sequences.
C_true == <<Word(S_true)>>
C_false == <<Word(S_false)>>
C_ex3 == <<Word(S_ex3)>>
C_cat == <<Word(S_cat)>>
C_nosuch == <<Word(S_nosuch)>>
C_noexec == <<Word(S_noexec)>>
C_unset == <<Word(S_unset)>>
C_ll == <<Word(S_ll)>>
C_echo_hi == <<Word(S_echo), Word(S_hi)>>
C_export == <<Word(S_export), Word(<<"a", "=", "b">>)>>
C_sleep == <<Word(S_sleep), Word(S_5)>>
C_jobs == <<Word(S_jobs)>>
C_bg == <<Word(S_bg)>>
C_fg(n) == <<Word(S_fg), Word(n)>>

ExecCmds ==
    {C_true, C_false, C_ex3, C_cat, C_nosuch, C_unset, C_ll, C_echo_hi,
     C_export}

SimpleLines ==
    ExecCmds \cup {C_noexec, C_sleep \o <<TBackground>>, C_jobs, C_bg, C_fg(S_1)}

RedirectLines ==
    {c \o <<op, Word(S_f)>> :
        c \in ExecCmds,
        op \in {TRedirectOut, TRedirectAppend, TRedirectIn}}
    \cup {C_echo_hi \o <<op, Word(S_out_txt)>> :
            op \in {TRedirectOut, TRedirectAppend}}
    \cup {C_echo_hi \o <<TRedirectOut, Word(S_dot)>>,
          Line_cmd_out, Line_cmd_append}

Pipe2Lines ==
    {c1 \o <<TPipe>> \o c2 :
        c1 \in {C_echo_hi, C_true, C_false, C_ex3, C_unset, C_ll, C_nosuch},
        c2 \in {C_cat, C_ex3, C_true, C_unset, C_nosuch}}

Pipe3Lines ==
    {c1 \o <<TPipe>> \o c2 \o <<TPipe>> \o c3 :
        c1 \in {C_echo_hi, C_false, C_unset, C_ll},
        c2 \in {C_cat, C_echo_hi, C_false, C_unset},
        c3 \in {C_cat, C_ex3}}

PipeRedirectLines ==
    {C_echo_hi \o <<TPipe>> \o C_cat \o <<TRedirectOut, Word(S_f)>>,
     C_echo_hi \o <<TRedirectOut, Word(S_f), TPipe>> \o C_cat}

ChainLines ==
    {l \o <<op>> \o r :
        l \in {C_true, C_false, C_ex3, C_nosuch,
               C_false \o <<TPipe>> \o C_cat,
               C_echo_hi \o <<TPipe>> \o C_ex3},
        op \in {TAnd, TOr},
        r \in {C_echo_hi, C_ex3 \o <<Word(S_a)>>, C_true \o <<Word(S_a)>>}}

\* A command with a trailing & as the last stage of a pipe, and before a
\* redirect.
BackgroundStageLines ==
    {C_echo_hi \o <<TPipe>> \o C_sleep \o <<TBackground>>,
     C_sleep \o <<TBackground, TRedirectOut, Word(S_f)>>}

\* Lines the parser rejects: an operator with no command before it, a
\* lone &, a redirect with no filename or with an operator for one.
ParseErrorLines ==
    {<<TPipe>> \o C_cat, <<TAnd>> \o C_true, <<TBackground>>,
     C_true \o <<TRedirectOut>>, C_true \o <<TRedirectIn>>,
     C_echo_hi \o <<TRedirectAppend, TPipe>> \o C_cat}

\* A chain of two commands of one word each.
NeverParsedLines == {C_true \o <<TAnd>> \o C_false}

\* Commands under the time prefix: externals, builtins of the dispatcher,
\* the job builtins, a background command, and time alone.
TimeLines ==
    {<<Word(S_time)>> \o c :
        c \in {<<>>, C_true, C_false, C_ex3, C_nosuch, C_unset, C_export,
               C_jobs, C_fg(S_1), C_sleep \o <<TBackground>>}}

\* A background command whose program does not exist.
FailedBackgroundLines == {C_nosuch \o <<TBackground>>}

\* A program that is killed by a signal: alone, before &&, under time, as
\* the last stage of a pipe, and in the background.
C_segv == <<Word(S_segv)>>
Line_segv_and_echo == C_segv \o <<TAnd>> \o C_echo_hi

KilledLines ==
    {C_segv, Line_segv_and_echo, <<Word(S_time)>> \o C_segv,
     C_echo_hi \o <<TPipe>> \o C_segv, C_segv \o <<TBackground>>}

ExecLines ==
    TimeLines \cup FailedBackgroundLines \cup KilledLines \cup SimpleLines \cup RedirectLines \cup Pipe2Lines \cup Pipe3Lines
    \cup PipeRedirectLines \cup ChainLines \cup BackgroundStageLines
    \cup ParseErrorLines \cup NeverParsedLines

JobLines ==
    {C_sleep \o <<TBackground>>, C_ex3 \o <<TBackground>>, C_jobs,
     C_fg(S_1), C_fg(S_2), <<Word(S_fg)>>}

-----------------------------------------------------------------------------
(* The parser as a state machine: one line is parsed, parse_chain's loop   *)
(* one iteration at a time.                                                *)

\* The history of the alias table: the operation, what it was given, what
\* it returned and the manager before it.
AliasOp(kind, input, output, status, before) ==
    [kind |-> kind, input |-> input, output |-> output, status |-> status,
     before |-> before]

NoAliasOp == AliasOp("none", <<>>, <<>>, 0, Manager(NoAliases, NoAliasFile))

\* The tokenizer before it is given a text.
NoDetect == [in_single |-> FALSE, in_double |-> FALSE, incomplete |-> FALSE]

Lexer(at, st, detect, tree) ==
    [pc |-> at, st |-> st, detect |-> detect, tree |-> tree]

LexerIdle == Lexer("idle", TokenizeStart(<<>>), NoDetect, NoResult)

ShellStart ==
    /\ last_status = 0
    /\ jobs = <<>>
    /\ next_id = 1
    /\ line = [tokens |-> <<>>, res |-> NoResult, returned_ok |-> TRUE,
               events |-> <<>>, status_before |-> 0, jobs_after |-> <<>>,
               terminal |-> <<>>,
               before |-> [jobs |-> <<>>, next_id |-> 1,
                           files |-> [n \in FileSet |-> NoFile],
                           events |-> <<>>, issued |-> <<>>,
                           terminal |-> <<>>]]
    /\ nlines = 0
    /\ issued = <<>>
    /\ aliases = NoAliases
    /\ alias_file = NoAliasFile
    /\ alias_op = NoAliasOp
    /\ session = "reading"

ParserIdle ==
    /\ tokens = <<>>
    /\ pc = "idle"
    /\ i = 0
    /\ parts = <<>>
    /\ ops = <<>>
    /\ result = NoResult

ParseState == [pc |-> pc, i |-> i, parts |-> parts, ops |-> ops,
               result |-> result]

ParseBecomes(st) ==
    /\ pc' = st.pc
    /\ i' = st.i
    /\ parts' = st.parts
    /\ ops' = st.ops
    /\ result' = st.result
    /\ UNCHANGED <<tokens, last_status, jobs, next_id, files, line, nlines,
                   issued, aliases, alias_file, alias_op, session, lexer>>

ParseInit ==
    /\ lexer = LexerIdle
    /\ \/ /\ \E n \in 0..MaxTokens : tokens \in EnumeratedLines(n)
          /\ files = [n \in FileSet |-> NoFile]
       \/ /\ tokens \in ExampleLines
          /\ files = [n \in FileSet |-> NoFile]
       \/ /\ tokens \in GlobLines
          /\ files \in [FileSet -> {NoFile, FileOf(<<>>)}]
    /\ pc = ChainStart.pc
    /\ i = ChainStart.i
    /\ parts = ChainStart.parts
    /\ ops = ChainStart.ops
    /\ result = ChainStart.result
    /\ ShellStart

ParseTokens ==
    /\ pc = "parse_tokens"
    /\ ParseBecomes(parse_tokens(tokens, ParseState))

ChainIteration ==
    /\ pc = "chain_loop"
    /\ i < Len(tokens)
    /\ Len(parts) < MaxParts
    /\ ParseBecomes(chain_iteration(tokens, ParseState))

ChainFold ==
    /\ \/ pc = "chain_loop" /\ i >= Len(tokens)
       \/ pc = "chain_fold"
    /\ ParseBecomes(chain_fold(ParseState))

ParseNext == ParseTokens \/ ChainIteration \/ ChainFold

ParseSpec == ParseInit /\ [][ParseNext]_vars

-----------------------------------------------------------------------------
(* The shell as a state machine: a session runs lines one after the other, *)
(* and the children of background jobs exit when they choose to.           *)

Init ==
    /\ lexer = LexerIdle
    /\ ParserIdle
    /\ files \in [FileSet -> {NoFile, FileOf(<<"o", "\n">>)}]
    /\ files[S_out_txt] = NoFile
    /\ ShellStart

World ==
    [jobs |-> jobs, next_id |-> next_id, files |-> files, events |-> <<>>,
     issued |-> issued, terminal |-> <<>>]

\* Shell::run_line(line); when it does not return, the session reads no
\* other line.
RunLine(ts, max) ==
    /\ nlines < max
    /\ session = "reading"
    /\ \E r \in {run_line(ts, last_status, World)} :
       /\ session' = IF r.returned THEN session ELSE "stuck"
       /\ \A n \in FileSet : Len(r.w.files[n].data) <= MaxFileLen
       /\ last_status' = r.last_status
       /\ jobs' = r.w.jobs
       /\ next_id' = r.w.next_id
       /\ files' = r.w.files
       /\ issued' = r.w.issued
       /\ line' = [tokens |-> ts, res |-> r.res,
                   returned_ok |-> r.returned_ok, events |-> r.w.events,
                   terminal |-> r.w.terminal,
                   status_before |-> last_status,
                   jobs_after |-> r.w.jobs, before |-> World]
    /\ nlines' = nlines + 1
    /\ UNCHANGED <<parseVars, aliasVars, lexer>>

\* The child of the k-th job of the table exits.
ChildExits(k) ==
    /\ jobs[k].child.some
    /\ ~jobs[k].child.exited
    /\ jobs' = [jobs EXCEPT ![k].child.exited = TRUE]
    /\ UNCHANGED <<last_status, next_id, files, line, nlines, issued>>
    /\ UNCHANGED <<parseVars, aliasVars, session, lexer>>

Next ==
    \/ \E ts \in ExecLines : RunLine(ts, MaxLines)
    \/ \E k \in 1..Len(jobs) : ChildExits(k)

Spec == Init /\ [][Next]_vars

JobNext ==
    \/ \E ts \in JobLines : RunLine(ts, MaxJobLines)
    \/ \E k \in 1..Len(jobs) : ChildExits(k)

JobSpec == Init /\ [][JobNext]_vars

-----------------------------------------------------------------------------
(* The alias table as a state machine: the builtins and the manager's      *)
(* operations change it, run_line expands a text with it, and a new shell  *)
(* loads it from the file.                                                 *)

AliasInit ==
    /\ lexer = LexerIdle
    /\ ParserIdle
    /\ files = [n \in FileSet |-> NoFile]
    /\ ShellStart

AliasManagerNow == Manager(aliases, alias_file)

AliasStep(op, m) ==
    /\ aliases' = m.aliases
    /\ alias_file' = m.file
    /\ alias_op' = op
    /\ nlines' = nlines + 1
    /\ UNCHANGED <<last_status, jobs, next_id, files, line, issued>>
    /\ UNCHANGED <<parseVars, lexer>>

AliasReady ==
    /\ nlines < MaxAliasOps
    /\ session = "reading"

\* AliasManager::set(name, value)
SetAlias(name, value) ==
    /\ AliasReady
    /\ AliasStep(AliasOp("set", <<name, value>>, <<>>, 0, AliasManagerNow),
                 set(AliasManagerNow, name, value))
    /\ UNCHANGED session

\* AliasManager::unset(name)
UnsetAlias(name) ==
    /\ AliasReady
    /\ AliasStep(AliasOp("unset", <<name>>, <<>>, 0, AliasManagerNow),
                 unset(AliasManagerNow, name).m)
    /\ UNCHANGED session

\* The arm "alias" of execute_simple on argv; a panic ends the session.
AliasBuiltin(argv) ==
    /\ AliasReady
    /\ \E r \in {execute_alias(argv, AliasManagerNow)} :
        /\ AliasStep(AliasOp("alias", argv, <<>>, r.status,
                             AliasManagerNow), r.m)
        /\ session' = IF r.panicked THEN "panicked" ELSE session

\* The arm "unalias" of execute_simple on argv.
UnaliasBuiltin(argv) ==
    /\ AliasReady
    /\ \E r \in {execute_unalias(argv, AliasManagerNow)} :
        AliasStep(AliasOp("unalias", argv, <<>>, r.status, AliasManagerNow),
                  r.m)
    /\ UNCHANGED session

\* self.aliases.expand(trimmed) of run_line.
ExpandLine(text) ==
    /\ AliasReady
    /\ AliasStep(AliasOp("expand", text, expand(aliases, text), 0,
                         AliasManagerNow), AliasManagerNow)
    /\ UNCHANGED session

\* Shell::new: the table of a new shell is loaded from the file.
NewShell ==
    /\ AliasReady
    /\ AliasStep(AliasOp("new", <<>>, <<>>, 0, AliasManagerNow),
                 new_manager(alias_file))
    /\ UNCHANGED session

AliasNext ==
    \/ \E name \in AliasNames, value \in AliasValues : SetAlias(name, value)
    \/ \E name \in AliasNames : UnsetAlias(name)
    \/ \E argv \in AliasArgvs : AliasBuiltin(argv)
    \/ \E argv \in UnaliasArgvs : UnaliasBuiltin(argv)
    \/ \E text \in ExpandTexts : ExpandLine(text)
    \/ NewShell

AliasSpec == AliasInit /\ [][AliasNext]_vars

-----------------------------------------------------------------------------
(* The way of a text into a tree: the line editor asks the detector        *)
(* whether the text is complete, tokenize scans it one character at a      *)
(* time, and parse_tokens is given the tokens.  (Lines of the startup file *)
(* reach tokenize without the detector, so every text is tokenized here.)  *)

LexInit ==
    /\ ParserIdle
    /\ files = [n \in FileSet |-> NoFile]
    /\ ShellStart
    /\ \E text \in LexTexts :
        lexer = Lexer("detect", TokenizeStart(text), NoDetect, NoResult)

LexBecomes(l) ==
    /\ lexer' = l
    /\ UNCHANGED <<parseVars, shellVars, aliasVars, session>>

\* LineHelper::is_incomplete_command(line)
EditorCheck ==
    /\ lexer.pc = "detect"
    /\ LexBecomes([lexer EXCEPT
            !.pc = "scan",
            !.detect = is_incomplete_command(lexer.st.input)])

\* One iteration of the loop of tokenize.
TokenizeChar ==
    /\ lexer.pc = "scan"
    /\ lexer.st.pos < Len(lexer.st.input)
    /\ LexBecomes([lexer EXCEPT !.st = tokenize_char(lexer.st)])

\* The end of the loop of tokenize and its return.
TokenizeEnd ==
    /\ lexer.pc = "scan"
    /\ lexer.st.pos >= Len(lexer.st.input)
    /\ LexBecomes([lexer EXCEPT !.pc = "tokenized",
                                !.st = tokenize_end(lexer.st)])

\* parse_tokens(&tokens) of parse_command_line, when it returns.
ParseTokenized ==
    /\ lexer.pc = "tokenized"
    /\ parse_command_line(lexer.st.tokens).pc = "done"
    /\ LexBecomes([lexer EXCEPT
            !.pc = "parsed",
            !.tree = parse_command_line(lexer.st.tokens).result])

LexNext == EditorCheck \/ TokenizeChar \/ TokenizeEnd \/ ParseTokenized

LexSpec == LexInit /\ [][LexNext]_vars

-----------------------------------------------------------------------------
(* The trees the tokens of a line denote, read off the tokens alone        *)

WordsOf(c) == [k \in 1..Len(c) |-> c[k].text]

IsPrefix(a, b) == Len(a) <= Len(b) /\ SubSeq(b, 1, Len(a)) = a

NumberOf(ts, types) == Cardinality({k \in 1..Len(ts) : ts[k].type \in types})

\* Runs of words separated by single tokens of the types seps.
Separated(ts, seps) ==
    /\ ts # <<>>
    /\ \A k \in 1..Len(ts) : ts[k].type \in {"Word"} \cup seps
    /\ ts[1].type = "Word"
    /\ ts[Len(ts)].type = "Word"
    /\ \A k \in 1..(Len(ts) - 1) :
            ts[k].type = "Word" \/ ts[k + 1].type = "Word"

\* The simple commands of a separated line, in order.
RECURSIVE CommandsOf(_, _, _)
CommandsOf(ts, done, argv) ==
    IF ts = <<>> THEN Append(done, Simple(argv, FALSE))
    ELSE IF Head(ts).type = "Word"
    THEN CommandsOf(Tail(ts), done, Append(argv, Head(ts).text))
    ELSE CommandsOf(Tail(ts), Append(done, Simple(argv, FALSE)), <<>>)

RECURSIVE AndFlagsOf(_)
AndFlagsOf(ts) ==
    IF ts = <<>> THEN <<>>
    ELSE IF Head(ts).type \in {"And", "Or"}
    THEN <<Head(ts).type = "And">> \o AndFlagsOf(Tail(ts))
    ELSE AndFlagsOf(Tail(ts))

RECURSIVE ChainOver(_, _, _)
ChainOver(acc, flags, cmds) ==
    IF cmds = <<>> THEN acc
    ELSE ChainOver(Chain(acc, Head(cmds), Head(flags)), Tail(flags),
                   Tail(cmds))

RECURSIVE PipeOver(_, _)
PipeOver(acc, stages) ==
    IF stages = <<>> THEN acc
    ELSE PipeOver(Pipe(acc, Head(stages)), Tail(stages))

IsChainLine(ts) == Separated(ts, {"And", "Or"})
NumCommands(ts) == 1 + NumberOf(ts, {"And", "Or"})
LeftNestedChain(ts) ==
    ChainOver(Head(CommandsOf(ts, <<>>, <<>>)), AndFlagsOf(ts),
              Tail(CommandsOf(ts, <<>>, <<>>)))

\* A pipeline of two or more stages whose last stage is followed by > file.
IsPipeOutLine(ts) ==
    /\ Len(ts) >= 5
    /\ ts[Len(ts) - 1].type = "RedirectOut"
    /\ ts[Len(ts)].type = "Word"
    /\ Separated(SubSeq(ts, 1, Len(ts) - 2), {"Pipe"})
    /\ NumberOf(ts, {"Pipe"}) >= 1

StagesOf(ts) == CommandsOf(SubSeq(ts, 1, Len(ts) - 2), <<>>, <<>>)
TargetOf(ts) == ts[Len(ts)].text

\* RedirectOut{Pipe{...}, file, false}: the redirect over the whole pipe.
RedirectOverPipe(ts) ==
    RedirectOut(PipeOver(Head(StagesOf(ts)), Tail(StagesOf(ts))),
                TargetOf(ts), FALSE)

\* Pipe{..., RedirectOut{last stage, file, false}}: the redirect on the
\* last stage alone.
RedirectOnLastStage(ts) ==
    PipeOver(Head(StagesOf(ts)),
             [k \in 1..(Len(StagesOf(ts)) - 1) |->
                IF k + 1 < Len(StagesOf(ts)) THEN StagesOf(ts)[k + 1]
                ELSE RedirectOut(StagesOf(ts)[k + 1], TargetOf(ts), FALSE)])

RedirectTypes == {"RedirectOut", "RedirectAppend", "RedirectIn"}

RECURSIVE LeadingWords(_)
LeadingWords(ts) ==
    IF ts = <<>> \/ Head(ts).type # "Word" THEN 0
    ELSE 1 + LeadingWords(Tail(ts))

\* A simple command followed by one or more redirect operators, each with
\* its filename.
IsRedirectLine(ts) ==
    /\ LeadingWords(ts) >= 1
    /\ Len(ts) > LeadingWords(ts)
    /\ (Len(ts) - LeadingWords(ts)) % 2 = 0
    /\ \A k \in (LeadingWords(ts) + 1)..Len(ts) :
            IF (k - LeadingWords(ts)) % 2 = 1
            THEN ts[k].type \in RedirectTypes
            ELSE ts[k].type = "Word"

WrapRedirect(node, op, word) ==
    IF op.type = "RedirectIn" THEN RedirectIn(node, word.text)
    ELSE RedirectOut(node, word.text, op.type = "RedirectAppend")

RECURSIVE WrapAll(_, _)
WrapAll(node, pairs) ==
    IF pairs = <<>> THEN node
    ELSE WrapAll(WrapRedirect(node, pairs[1], pairs[2]), Tail(Tail(pairs)))

NestedRedirects(ts) ==
    WrapAll(Simple(WordsOf(SubSeq(ts, 1, LeadingWords(ts))), FALSE),
            SliceFrom(ts, LeadingWords(ts)))

-----------------------------------------------------------------------------
(* Properties of the parser (ParseSpec)                                    *)

\* C2: a line of k >= 1 simple commands separated by && / || parses to the
\* left-nested Chain tree of the k commands in order, with the and flags of
\* the operators in textual order; the parser collects no more than the k
\* operands on the way, and a && b || c gives Chain{Chain{a,b,true},c,false}.
C2_LeftNestedChain ==
    IsChainLine(tokens) =>
        /\ Len(parts) <= NumCommands(tokens)
        /\ pc = "done" => result = ParsedLine(LeftNestedChain(tokens))
        /\ (tokens = Line_and_or /\ pc = "done") =>
                result = ParsedLine(
                    Chain(Chain(Simple(<<S_a>>, FALSE), Simple(<<S_b>>, FALSE),
                                TRUE),
                          Simple(<<S_c>>, FALSE), FALSE))

\* C7 as stated: for a pipeline whose last stage is followed by > file, the
\* root of the returned tree is the RedirectOut node and its inner node is
\* the Pipe of all the stages.
C7_RedirectOutIsRoot ==
    (IsPipeOutLine(tokens) /\ pc = "done") =>
        result = ParsedLine(RedirectOverPipe(tokens))

\* C7, amended: for a pipeline whose last stage is followed by > file, the
\* root of the returned tree is the Pipe node; its right child is a
\* RedirectOut node that wraps the last stage alone; ls | grep foo > out.txt
\* gives Pipe{Simple{ls}, RedirectOut{Simple{grep,foo}, "out.txt", false}}.
C7_RedirectOnLastStage ==
    (IsPipeOutLine(tokens) /\ pc = "done") =>
        /\ result = ParsedLine(RedirectOnLastStage(tokens))
        /\ result.node.type = "Pipe"
        /\ result.node.right.type = "RedirectOut"
        /\ result.node.right.cmd.type = "Simple"
        /\ tokens = Line_ls_grep =>
                result.node =
                    Pipe(Simple(<<S_ls>>, FALSE),
                         RedirectOut(Simple(<<S_grep, S_foo>>, FALSE),
                                     S_out_txt, FALSE))

\* The parse of ls | grep foo > out.txt has returned, with a Pipe at the
\* root.
C7_Witness ==
    /\ tokens = Line_ls_grep
    /\ pc = "done"
    /\ result.ok
    /\ result.node.type = "Pipe"

\* C8: for a command followed by m >= 1 redirect operators each with its
\* filename, parse_redirect returns m nested wrapper nodes, the first
\* operator innermost, and an index past the last filename; the line parses
\* to that tree, and cmd > a < b gives RedirectIn{RedirectOut{cmd,a,false},b}.
C8_EveryRedirectConsumed ==
    (IsRedirectLine(tokens) /\ pc = "done") =>
        /\ parse_redirect(tokens) =
                Parsed(NestedRedirects(tokens), Len(tokens))
        /\ result = ParsedLine(NestedRedirects(tokens))
        /\ tokens = Line_cmd_out_in =>
                result = ParsedLine(
                    RedirectIn(RedirectOut(Simple(<<S_cmd>>, FALSE), S_a,
                                           FALSE), S_b))

-----------------------------------------------------------------------------
(* Properties of the executor (Spec): line is the last line run            *)

PipeLines == Pipe2Lines \cup Pipe3Lines

Started(argv) == \E k \in 1..Len(line.events) : line.events[k].argv = argv

\* The root of the tree the last line parsed to.
LineNode == parse_command_line(line.tokens).result.node

\* What the evaluation of a Chain node did when the right side, evaluated
\* after the left result l, gives r.
RightEvaluated(l, r) ==
    /\ line.events = r.w.events
    /\ Len(r.w.events) > Len(l.w.events)
    /\ line.res = r.res
    /\ r.res.ok => last_status = r.res.status

RightSkipped(l) ==
    /\ line.events = l.w.events
    /\ line.res = Ok(l.res.status)
    /\ last_status = l.res.status

ChainContract(node, l) ==
    /\ IsPrefix(l.w.events, line.events)
    /\ l.res.ok =>
        IF \/ node.and /\ l.res.status = 0
           \/ ~node.and /\ l.res.status # 0
        THEN RightEvaluated(l, execute_command(node.right, l.w))
        ELSE RightSkipped(l)

C3_StageReadsPredecessor ==
    line.tokens \in PipeLines =>
        \A k \in 2..Len(line.events) :
            line.events[k].kind = "spawn" =>
                line.events[k].stdin = line.events[k - 1].stdout

\* C4: in a pipeline a stage that is followed by another stage finished
\* with status 0 before that stage was started, whether it is an external
\* process or a command the builtin dispatcher handled.
C4_FailedStageAborts ==
    line.tokens \in PipeLines =>
        \A k \in 1..(Len(line.events) - 1) :
            /\ line.events[k].kind \in {"spawn", "builtin"}
            /\ success(line.events[k].status)

\* C5: when a non-final stage of a pipeline exits with a non-zero status s,
\* last_status is s once run_line has returned.
C5_FailedStageStatus ==
    line.tokens \in PipeLines =>
        \A k \in 1..Len(line.events) :
            (/\ line.events[k].kind = "spawn"
             /\ line.events[k].via \in {"capture", "pipe_stage"}
             /\ ~success(line.events[k].status)) =>
                last_status = line.events[k].status.code

\* C6: the exit status 3 of an external command is last_status after the
\* line when the command is the final stage of a Pipe, the inner command of
\* a RedirectOut or of a RedirectIn of a readable file, or the deciding
\* operand of a Chain.
C6_StatusPropagates ==
    /\ \A c \in {C_echo_hi, C_true} :
            line.tokens = c \o <<TPipe>> \o C_ex3 => last_status = 3
    /\ \A op \in {TRedirectOut, TRedirectAppend} :
            line.tokens = C_ex3 \o <<op, Word(S_f)>> => last_status = 3
    /\ (/\ line.tokens = C_ex3 \o <<TRedirectIn, Word(S_f)>>
        /\ line.before.files[S_f].exists) => last_status = 3
    /\ \A op \in {TAnd, TOr} :
            line.tokens = C_ex3 \o <<op>> \o C_echo_hi =>
                last_status = IF op = TAnd THEN 3 ELSE 0
    /\ line.tokens = C_true \o <<TAnd>> \o C_ex3 \o <<Word(S_a)>> =>
            last_status = 3

\* The commands a line redirects to a file.
RedirectedCmds == ExecCmds \cup {<<Word(S_cmd)>>}

\* The inner command of the last line ran alone and succeeded.
InnerSucceeded ==
    /\ Len(line.events) = 1
    /\ line.events[1].kind \in {"spawn", "builtin"}
    /\ success(line.events[1].status)

\* C9: c > file and c >> file parse to RedirectOut{Simple{c}, file, append}
\* with append false for > and true for >>; when the inner command succeeds
\* with output B the file exists afterwards, holds exactly B when append is
\* false and its previous content followed by B when append is true, and
\* the status is 0.
C9_RedirectOutWrites ==
    \A c \in RedirectedCmds, f \in FileSet,
       op \in {TRedirectOut, TRedirectAppend} :
        line.tokens = c \o <<op, Word(f)>> =>
            /\ parse_command_line(line.tokens).result =
                    ParsedLine(RedirectOut(Simple(WordsOf(c), FALSE), f,
                                           op = TRedirectAppend))
            /\ InnerSucceeded =>
                    /\ files[f].exists
                    /\ files[f].data =
                            (IF op = TRedirectAppend
                             THEN line.before.files[f].data
                             ELSE <<>>) \o line.events[1].stdout
                    /\ last_status = 0
                    /\ line.returned_ok

\* echo hi > f has replaced the previous content of f.
C9_Witness ==
    /\ line.tokens = C_echo_hi \o <<TRedirectOut, Word(S_f)>>
    /\ line.before.files[S_f] = FileOf(<<"o", "\n">>)
    /\ files[S_f] = FileOf(<<"h", "i", "\n">>)
    /\ last_status = 0

-----------------------------------------------------------------------------
(* Properties of the job table (JobSpec)                                   *)

\* C10: the first id add_job returns is 1, every later id is greater than
\* every id returned before it, so no id is returned twice, whatever the
\* interleaving of add_job, fg and remove_finished; the jobs of the table
\* are in increasing id order and carry ids add_job returned.
C10_JobIdsIncrease ==
    /\ issued # <<>> => issued[1] = 1
    /\ \A a, b \in 1..Len(issued) : a < b => issued[a] < issued[b]
    /\ \A a, b \in 1..Len(jobs) : a < b => jobs[a].id < jobs[b].id
    /\ \A a \in 1..Len(jobs) :
            \E b \in 1..Len(issued) : issued[b] = jobs[a].id

\* A job was added after every earlier job had been evicted from the table.
C10_Witness ==
    /\ line.tokens = C_sleep \o <<TBackground>>
    /\ line.before.issued # <<>>
    /\ line.before.jobs = <<>>
    /\ Len(jobs) = 1
    /\ jobs[1].id = Len(line.before.issued) + 1

\* The lines of JobLines that end with a trailing &.
BackgroundLines == {C_sleep \o <<TBackground>>, C_ex3 \o <<TBackground>>}

\* The command of a line without the last token.
FrontWords(ts) == WordsOf(SubSeq(ts, 1, Len(ts) - 1))

\* C11: an external command followed by a trailing & parses to
\* Simple{argv, background: true}; when its spawn succeeds the executor
\* returns status 0 without waiting for the child (the child is still
\* running when run_line returns and nothing was waited for), and the job
\* table gains exactly one job, which holds that child; in a fresh session
\* the job has id 1.
C11_BackgroundRegistersJob ==
    line.tokens \in BackgroundLines =>
        /\ parse_command_line(line.tokens).result =
                ParsedLine(Simple(FrontWords(line.tokens), TRUE))
        /\ line.res = Ok(0)
        /\ last_status = 0
        /\ Len(line.events) = 1
        /\ line.events[1].kind = "spawn"
        /\ line.events[1].argv = FrontWords(line.tokens)
        /\ Len(line.jobs_after) = Len(line.before.jobs) + 1
        /\ SubSeq(line.jobs_after, 1, Len(line.before.jobs)) =
                line.before.jobs
        /\ line.jobs_after[Len(line.jobs_after)].child.some
        /\ ~line.jobs_after[Len(line.jobs_after)].child.exited
        /\ line.jobs_after[Len(line.jobs_after)].child.argv =
                FrontWords(line.tokens)
        /\ line.before.issued = <<>> =>
                line.jobs_after[Len(line.jobs_after)].id = 1

\* sleep 5 & as the first line of a session: job 1 is in the table and its
\* child is still running.
C11_Witness ==
    /\ nlines = 1
    /\ line.tokens = C_sleep \o <<TBackground>>
    /\ Len(jobs) = 1
    /\ jobs[1].id = 1
    /\ jobs[1].child.some
    /\ ~jobs[1].child.exited
    /\ last_status = 0

\* C12: wherever the parser places a Simple node with background true
\* (alone, as a stage of a Pipe, under a redirect), its command is started
\* by the call that does not wait, and the job table gains a job holding
\* its process.
C12_NeverBlocksOnBackground ==
    line.tokens \in BackgroundStageLines \cup {C_sleep \o <<TBackground>>} =>
        /\ Started(<<S_sleep, S_5>>)
        /\ \A k \in 1..Len(line.events) :
                line.events[k].argv = <<S_sleep, S_5>> =>
                    line.events[k].via = "background"
        /\ Len(line.jobs_after) = Len(line.before.jobs) + 1
        /\ line.jobs_after[Len(line.jobs_after)].child.some
        /\ line.jobs_after[Len(line.jobs_after)].child.argv =
                <<S_sleep, S_5>>

\* The fg lines of JobLines and the id each asks for.
FgLines == {C_fg(S_1), C_fg(S_2), <<Word(S_fg)>>}
FgIdOf(ts) == IF ts = C_fg(S_2) THEN 2 ELSE 1

\* The positions in the table js of the jobs with this id.
PositionsOf(js, id) == {k \in 1..Len(js) : js[k].id = id}

\* The last line was fg on the job at position k, which held its handle.
FgTookJob(k) ==
    /\ line.tokens \in FgLines
    /\ k \in PositionsOf(line.before.jobs, FgIdOf(line.tokens))
    /\ line.before.jobs[k].child.some

\* C13: fg id on a job that still holds its process handle empties the
\* job's slot, waits for that process and returns the status it exits with;
\* the job record stays in the table, every other job is untouched; the
\* sweep of a later jobs builtin leaves no job with an empty slot in the
\* table, and lists only the jobs it leaves.
C13_FgTakesHandle ==
    /\ \A k \in 1..Len(line.before.jobs) :
            FgTookJob(k) =>
                /\ line.res = Ok(line.before.jobs[k].child.status.code)
                /\ last_status = line.before.jobs[k].child.status.code
                /\ Len(line.events) = 1
                /\ line.events[1].kind = "wait"
                /\ line.events[1].argv = line.before.jobs[k].child.argv
                /\ Len(line.jobs_after) = Len(line.before.jobs)
                /\ line.jobs_after[k].id = line.before.jobs[k].id
                /\ ~line.jobs_after[k].child.some
                /\ \A m \in 1..Len(line.before.jobs) :
                        m # k => line.jobs_after[m] = line.before.jobs[m]
    /\ line.tokens = C_jobs =>
            /\ \A m \in 1..Len(line.jobs_after) :
                    line.jobs_after[m].child.some
            /\ \A m \in 1..Len(line.before.jobs) :
                    ~line.before.jobs[m].child.some =>
                        PositionsOf(line.jobs_after,
                                    line.before.jobs[m].id) = {}
            /\ line.events[1].stdout =
                    [m \in 1..Len(line.jobs_after) |->
                        <<line.jobs_after[m].id, "Running">>]

\* fg 1 took the handle of job 1, whose process exits with status 3; the
\* record is still in the table.
C13_Witness ==
    /\ line.tokens = C_fg(S_1)
    /\ FgTookJob(1)
    /\ last_status = 3
    /\ Len(jobs) >= 1
    /\ jobs[1].id = 1
    /\ ~jobs[1].child.some

\* C14: fg id returns status 1, waits for nothing and leaves the job table
\* as it was (same jobs, same handles, same next id) when no job has that
\* id or when the job's handle was already taken, as it is for a second
\* fg on the same id.
C14_FgJobNotFound ==
    (/\ line.tokens \in FgLines
     /\ \A k \in 1..Len(line.before.jobs) : ~FgTookJob(k)) =>
        /\ line.res = Ok(1)
        /\ last_status = 1
        /\ line.events = <<>>
        /\ line.jobs_after = line.before.jobs
        /\ next_id = line.before.next_id
        /\ issued = line.before.issued

\* A second fg 1: job 1 is in the table with its handle already taken.
C14_Witness ==
    /\ line.tokens = C_fg(S_1)
    /\ Len(line.before.jobs) >= 1
    /\ line.before.jobs[1].id = 1
    /\ ~line.before.jobs[1].child.some
    /\ last_status = 1
    /\ line.events = <<>>

\* A job whose process is still running.
StillRunning(j) == j.child.some /\ ~j.child.exited

\* C15: remove_finished, as the jobs builtin calls it, evicts exactly the
\* jobs whose process has exited or whose handle is empty and keeps every
\* job whose process is still running, in their original order; right
\* after it every job of the table holds a handle, and the listing of the
\* jobs builtin has no job in the "Done" state.
C15_SweepKeepsRunning ==
    line.tokens = C_jobs =>
        /\ \A m \in 1..Len(line.before.jobs) :
                IF StillRunning(line.before.jobs[m])
                THEN \E a \in 1..Len(line.jobs_after) :
                        line.jobs_after[a] = line.before.jobs[m]
                ELSE PositionsOf(line.jobs_after,
                                 line.before.jobs[m].id) = {}
        /\ \A a \in 1..Len(line.jobs_after) :
                \E m \in 1..Len(line.before.jobs) :
                    line.before.jobs[m] = line.jobs_after[a]
        /\ \A a, b \in 1..Len(line.jobs_after) :
                a < b =>
                    \E m, n \in 1..Len(line.before.jobs) :
                        /\ m < n
                        /\ line.before.jobs[m] = line.jobs_after[a]
                        /\ line.before.jobs[n] = line.jobs_after[b]
        /\ \A a \in 1..Len(line.jobs_after) :
                line.jobs_after[a].child.some
        /\ Len(line.events) = 1
        /\ Len(line.events[1].stdout) = Len(line.jobs_after)
        /\ \A a \in 1..Len(line.events[1].stdout) :
                line.events[1].stdout[a][2] # "Done"
        /\ line.res = Ok(0)

\* jobs swept a table of two jobs: the first, whose process had exited, is
\* gone, the second, still running, is kept.
C15_Witness ==
    /\ line.tokens = C_jobs
    /\ Len(line.before.jobs) = 2
    /\ line.before.jobs[1].child.some
    /\ line.before.jobs[1].child.exited
    /\ StillRunning(line.before.jobs[2])
    /\ Len(line.jobs_after) = 1
    /\ line.jobs_after[1] = line.before.jobs[2]

\* The status a foreground external command line ends with: the exit code
\* of the program, 127 for a program that is not found, 126 for one that
\* cannot be executed.
ForegroundStatus ==
    <<  <<C_true, 0>>, <<C_false, 1>>, <<C_ex3, 3>>, <<C_echo_hi, 0>>,
        <<C_cat, 0>>, <<C_nosuch, 127>>, <<C_noexec, 126>> >>

\* C16: a foreground Simple external command executed directly ends with
\* the child's own exit code when it spawns, with 127 when the program is
\* not found and with 126 for any other spawn failure; in the two failure
\* cases no process runs, run_line returns normally and last_status is
\* that code.
C16_ForegroundStatus ==
    \A n \in 1..Len(ForegroundStatus) :
        line.tokens = ForegroundStatus[n][1] =>
            /\ line.returned_ok
            /\ line.res = Ok(ForegroundStatus[n][2])
            /\ last_status = ForegroundStatus[n][2]
            /\ Len(line.events) = 1
            /\ line.events[1].via = "direct"
            /\ line.events[1].kind =
                    IF ForegroundStatus[n][2] \in {126, 127}
                    THEN "spawn_failed" ELSE "spawn"

\* After a line that ended with status 3, a command that cannot be
\* executed ended with 126.
C16_Witness ==
    /\ line.tokens = C_noexec
    /\ line.status_before = 3
    /\ line.returned_ok
    /\ last_status = 126

\* A line the parser rejected was reported: last_status is 1, no process
\* was started, and the job table and the alias table are as before.
ParseErrorReported ==
    line.tokens \in ParseErrorLines =>
        /\ line.returned_ok
        /\ ~line.res.ok
        /\ last_status = 1
        /\ line.events = <<>>
        /\ line.jobs_after = line.before.jobs
        /\ aliases = NoAliases

\* C17: a line on which parsing fails is reported, sets last_status to 1,
\* starts no process, changes neither the job table nor the alias table
\* and run_line returns Ok; and after every line that is not an exit
\* command the session is still reading lines.
C17_MalformedLineKeepsSession ==
    /\ ParseErrorReported
    /\ line.tokens # <<>> => session = "reading"

\* The whitespace-delimited words of a text, read off the text: a word
\* starts at a non-space character that follows a space or nothing, and
\* runs up to the next space.
WordStarts(s) ==
    {k \in 1..Len(s) : ~IsSpace(s[k]) /\ (k = 1 \/ IsSpace(s[k - 1]))}

WordEnd(s, k) ==
    CHOOSE e \in k..Len(s) :
        /\ \A j \in k..e : ~IsSpace(s[j])
        /\ e = Len(s) \/ IsSpace(s[e + 1])

NthStart(s, n) ==
    CHOOSE k \in WordStarts(s) :
        Cardinality({j \in WordStarts(s) : j < k}) = n - 1

TextWords(s) ==
    [n \in 1..Cardinality(WordStarts(s)) |->
        SubSeq(s, NthStart(s, n), WordEnd(s, NthStart(s, n)))]

\* Every word of ws with a space before it.
RECURSIVE SpacedWords(_)
SpacedWords(ws) ==
    IF ws = <<>> THEN <<>>
    ELSE <<" ">> \o Head(ws) \o SpacedWords(Tail(ws))

ExpandedOnce(t, text) ==
    IF TextWords(text) = <<>> THEN text
    ELSE IF TextWords(text)[1] \notin DOMAIN t THEN text
    ELSE t[TextWords(text)[1]] \o SpacedWords(Tail(TextWords(text)))

\* C18: expand returns the text unchanged when its first word is not an
\* alias name, and otherwise the alias value followed by the other words,
\* each after a single space; the value is substituted once and is not
\* expanded again, even when it starts with an alias name.
C18_ExpandOnce ==
    alias_op.kind = "expand" =>
        alias_op.output = ExpandedOnce(alias_op.before.aliases,
                                       alias_op.input)

\* With ll defined as "ll -a" and l as "ll", the text "ll l" expanded to
\* "ll -a l".
C18_Witness ==
    /\ alias_op.kind = "expand"
    /\ alias_op.input = <<"l", "l", " ", "l">>
    /\ DOMAIN alias_op.before.aliases = {S_ll, S_l}
    /\ alias_op.before.aliases[S_ll] = V_ll_a
    /\ alias_op.before.aliases[S_l] = S_ll
    /\ alias_op.output = <<"l", "l", " ", "-", "a", " ", "l">>

\* C19: the table a new shell loads from the alias file is the table the
\* shell that wrote the file had: the same names with the same values.
C19_ReloadYieldsTable ==
    alias_op.kind = "new" => aliases = alias_op.before.aliases

\* The text of the definition an alias command line gives, its name and
\* the value written after the first '='.
DefinitionOf(argv) == join(Tail(argv))

DefinedName(argv) ==
    Trim(SubSeq(DefinitionOf(argv), 1,
                FindFrom(DefinitionOf(argv), "=", 1) - 1))

WrittenValue(argv) ==
    Trim(SubSeq(DefinitionOf(argv), FindFrom(DefinitionOf(argv), "=", 1) + 1,
                Len(DefinitionOf(argv))))

\* One layer of quotes removed when both ends are the same quote character.
Unquoted(v) ==
    IF Len(v) >= 2 /\ v[1] = v[Len(v)] /\ v[1] \in {"'", "\""}
    THEN SubSeq(v, 2, Len(v) - 1)
    ELSE v

\* C20: the command alias name=value completes with status 0 for every
\* value, the session goes on, and the name is defined as the value with
\* one layer of surrounding quotes removed.
C20_AliasBuiltinCompletes ==
    (/\ alias_op.kind = "alias"
     /\ Len(alias_op.input) > 1
     /\ Contains(DefinitionOf(alias_op.input), "=")) =>
        /\ session = "reading"
        /\ alias_op.status = 0
        /\ DefinedName(alias_op.input) \in DOMAIN aliases
        /\ aliases[DefinedName(alias_op.input)] =
                Unquoted(WrittenValue(alias_op.input))

\* The quoting a text is in after its first k characters, read off the
\* text: "none", "single" or "double".  A quote opens its quoting from
\* "none" and closes its own quoting, and is an ordinary character inside
\* the other quoting.
RECURSIVE QuotingAfter(_, _)
QuotingAfter(s, k) ==
    IF k = 0 THEN "none"
    ELSE IF QuotingAfter(s, k - 1) = "none"
    THEN (IF s[k] = "'" THEN "single"
          ELSE IF s[k] = "\"" THEN "double" ELSE "none")
    ELSE IF QuotingAfter(s, k - 1) = "single"
    THEN (IF s[k] = "'" THEN "none" ELSE "single")
    ELSE (IF s[k] = "\"" THEN "none" ELSE "double")

\* The character at k opens or closes a quoting; it is an unquoted blank;
\* it is an unquoted operator character.
IsToggle(s, k) == QuotingAfter(s, k) # QuotingAfter(s, k - 1)
IsBlank(s, k) == QuotingAfter(s, k - 1) = "none" /\ s[k] \in {" ", "\t"}
IsOperatorChar(s, k) ==
    QuotingAfter(s, k - 1) = "none" /\ s[k] \in {"|", "&", ">", "<"}

NonEmpty(cur) == IF cur = <<>> THEN <<>> ELSE <<cur>>

\* The words of a text from its character k on, cur being the word begun:
\* unquoted blanks and operator characters end a word, the quotes that
\* open or close a quoting are left out, every other character is kept.
RECURSIVE QuotedWords(_, _, _)
QuotedWords(s, k, cur) ==
    IF k > Len(s) THEN NonEmpty(cur)
    ELSE IF IsBlank(s, k) \/ IsOperatorChar(s, k)
    THEN NonEmpty(cur) \o QuotedWords(s, k + 1, <<>>)
    ELSE IF IsToggle(s, k) THEN QuotedWords(s, k + 1, cur)
    ELSE QuotedWords(s, k + 1, Append(cur, s[k]))

WordTexts(ts) ==
    [k \in 1..Len(SelectSeq(ts, LAMBDA t : t.type = "Word")) |->
        SelectSeq(ts, LAMBDA t : t.type = "Word")[k].text]

Tokenized == lexer.pc \in {"tokenized", "parsed"}

\* C21: while tokenize scans, its two quote flags are the quoting of the
\* text read so far (a quote toggles its flag only when the other flag is
\* clear); and the Word tokens it returns are the words of the text, with
\* the toggling quotes dropped, the quotes inside the other quoting kept,
\* and quoted blanks and operator characters kept in the word.
C21_QuotesDelimitWords ==
    /\ lexer.pc \in {"scan", "tokenized", "parsed"} =>
        /\ lexer.st.in_single =
                (QuotingAfter(lexer.st.input, lexer.st.pos) = "single")
        /\ lexer.st.in_double =
                (QuotingAfter(lexer.st.input, lexer.st.pos) = "double")
    /\ Tokenized =>
        WordTexts(lexer.st.tokens) = QuotedWords(lexer.st.input, 1, <<>>)
    /\ (Tokenized /\ lexer.st.input = Text_echo_ab_c) =>
        lexer.st.tokens = <<Word(S_echo), Word(<<"a", " ", "b">>), Word(S_c)>>

\* echo "a b" c was tokenized into three words, the second holding the
\* quoted space.
C21_Witness ==
    /\ Tokenized
    /\ lexer.st.input = Text_echo_ab_c
    /\ Len(lexer.st.tokens) = 3
    /\ lexer.st.tokens[2] = Word(<<"a", " ", "b">>)

\* The operator an unquoted operator character at k stands for, and the
\* number of characters it takes.
IsDoubled(s, k) == s[k] # "<" /\ k + 1 <= Len(s) /\ s[k + 1] = s[k]

OperatorType(s, k) ==
    IF s[k] = "|" THEN (IF IsDoubled(s, k) THEN "Or" ELSE "Pipe")
    ELSE IF s[k] = "&" THEN (IF IsDoubled(s, k) THEN "And" ELSE "Background")
    ELSE IF s[k] = ">"
    THEN (IF IsDoubled(s, k) THEN "RedirectAppend" ELSE "RedirectOut")
    ELSE "RedirectIn"

WordType(pending) == IF pending THEN <<"Word">> ELSE <<>>

\* The types of the tokens of a text from its character k on, read
\* greedily from left to right; pending tells that a word has begun.
RECURSIVE TokenTypes(_, _, _)
TokenTypes(s, k, pending) ==
    IF k > Len(s) THEN WordType(pending)
    ELSE IF IsOperatorChar(s, k)
    THEN WordType(pending) \o <<OperatorType(s, k)>>
         \o TokenTypes(s, IF IsDoubled(s, k) THEN k + 2 ELSE k + 1, FALSE)
    ELSE IF IsBlank(s, k) THEN WordType(pending) \o TokenTypes(s, k + 1, FALSE)
    ELSE IF IsToggle(s, k) THEN TokenTypes(s, k + 1, pending)
    ELSE TokenTypes(s, k + 1, TRUE)

\* C22: outside quotes the tokenizer reads || as Or, | as Pipe, && as And,
\* & as Background, >> as RedirectAppend, > as RedirectOut and < as
\* RedirectIn, greedily from left to right; a pending word becomes a Word
\* just before the operator, and no Word has an empty text.
C22_OperatorsRecognized ==
    /\ Tokenized =>
        [k \in 1..Len(lexer.st.tokens) |-> lexer.st.tokens[k].type]
            = TokenTypes(lexer.st.input, 1, FALSE)
    /\ lexer.pc \in {"scan", "tokenized", "parsed"} =>
        \A k \in 1..Len(lexer.st.tokens) :
            lexer.st.tokens[k].type = "Word" =>
                lexer.st.tokens[k].text # <<>>

\* a||| was tokenized into the word a, an Or and a Pipe.
C22_Witness ==
    /\ Tokenized
    /\ lexer.st.input = <<"a", "|", "|", "|">>
    /\ lexer.st.tokens = <<Word(S_a), TOr, TPipe>>

\* C23: the detector of the line editor ends its scan of a line inside a
\* single or double quote exactly when tokenize ends its scan of the same
\* line with that quote flag set.
C23_DetectorAgreesWithTokenizer ==
    Tokenized =>
        /\ lexer.detect.in_single = lexer.st.in_single
        /\ lexer.detect.in_double = lexer.st.in_double

\* The Simple nodes of a tree, from left to right.
RECURSIVE SimplesOf(_)
SimplesOf(node) ==
    IF node.type = "Simple" THEN <<node>>
    ELSE IF node.type \in {"Pipe", "Chain"}
    THEN SimplesOf(node.left) \o SimplesOf(node.right)
    ELSE SimplesOf(node.cmd)

AllWords(ts) == \A k \in 1..Len(ts) : ts[k].type = "Word"

\* C24: every Simple node of a tree the parser returns has a non-empty
\* argv; a command of n words has at least n argv entries; a glob pattern
\* that matches nothing stays in argv as the literal word.
C24_ArgvNeverEmpty ==
    (pc = "done" /\ result.ok) =>
        /\ \A k \in 1..Len(SimplesOf(result.node)) :
                SimplesOf(result.node)[k].argv # <<>>
        /\ AllWords(tokens) =>
                /\ result.node.type = "Simple"
                /\ Len(result.node.argv) >= Len(tokens)
        /\ tokens = <<Word(W_star_n)>> => result.node.argv = <<W_star_n>>

\* The pattern *.n matched no file and was kept as the only argv entry,
\* while the directory held a file.
C24_Witness ==
    /\ pc = "done"
    /\ result.ok
    /\ tokens = <<Word(W_star_n)>>
    /\ files[S_f].exists
    /\ result.node = Simple(<<W_star_n>>, FALSE)

\* The index (from 1) of the first Background token of ts.
HasBackground(ts) == \E k \in 1..Len(ts) : ts[k].type = "Background"

FirstBackground(ts) ==
    CHOOSE k \in 1..Len(ts) :
        /\ ts[k].type = "Background"
        /\ \A j \in 1..(k - 1) : ts[j].type # "Background"

\* C26: the tree returned for a line with a Background token is built from
\* the tokens up to that token only: it is the tree of the line cut after
\* its first Background token.
C26_NothingAttachedAfterBackground ==
    (pc = "done" /\ result.ok /\ HasBackground(tokens)) =>
        result = parse_command_line(
                    SubSeq(tokens, 1, FirstBackground(tokens))).result

\* C29: every iteration of the loop of parse_chain that stays in the loop
\* leaves the scan index strictly greater than it found it.
C29_ChainIndexIncreases ==
    [][(pc = "chain_loop" /\ pc' = "chain_loop") => i' > i]_vars

\* The quotings of a text enclose words of plain characters only (at least
\* one character, no blank, operator character or quote), and the text
\* ends outside quotes.
PlainQuoting(s) ==
    /\ QuotingAfter(s, Len(s)) = "none"
    /\ \A k \in 1..Len(s) :
        (QuotingAfter(s, k - 1) = "none" /\ IsToggle(s, k)) =>
            (k < Len(s) /\ ~IsToggle(s, k + 1))
    /\ \A k \in 1..Len(s) :
        (QuotingAfter(s, k - 1) # "none" /\ ~IsToggle(s, k)) =>
            s[k] \notin {" ", "\t", "|", "&", ">", "<", "'", "\""}

\* The same text with its words unquoted, and with single and double
\* quotes exchanged.
WithoutQuotes(s) == SelectSeq(s, LAMBDA ch : ch \notin {"'", "\""})

OtherQuotes(s) ==
    [k \in 1..Len(s) |->
        IF s[k] = "'" THEN "\"" ELSE IF s[k] = "\"" THEN "'" ELSE s[k]]

Text_quoted_tilde == <<"'", "~", "'">>

\* C28: a line whose quotes enclose plain words gives the same tokens as
\* the line with the words unquoted and as the line with the other kind of
\* quotes, and the same tree; the single-quoted word ~ is expanded in the
\* tree as the unquoted ~ is.
C28_QuotingChangesNothing ==
    /\ (Tokenized /\ PlainQuoting(lexer.st.input)) =>
        /\ lexer.st.tokens = tokenize(WithoutQuotes(lexer.st.input))
        /\ lexer.st.tokens = tokenize(OtherQuotes(lexer.st.input))
    /\ (lexer.pc = "parsed" /\ PlainQuoting(lexer.st.input)) =>
        lexer.tree = parse_command_line(
                        tokenize(WithoutQuotes(lexer.st.input))).result
    /\ (lexer.pc = "parsed" /\ lexer.st.input = Text_quoted_tilde) =>
        lexer.tree = ParsedLine(Simple(<<env_var(S_HOME).val>>, FALSE))

\* '~' was tokenized and parsed, and the tree holds the home directory in
\* place of the quoted ~.
C28_Witness ==
    /\ lexer.pc = "parsed"
    /\ lexer.st.input = Text_quoted_tilde
    /\ lexer.st.tokens = <<Word(<<"~">>)>>
    /\ lexer.tree.ok
    /\ lexer.tree.node.argv # <<<<"~">>>>

\* The last line ran a command under the time prefix.
TimedLine ==
    /\ nlines > 0
    /\ Len(line.tokens) >= 2
    /\ line.tokens[1] = Word(S_time)

\* The last line without its time prefix, run in the state the line found.
Untimed == run_line(Tail(line.tokens), line.status_before, line.before)

StartedAsProgram(name) ==
    \E k \in 1..Len(line.events) :
        /\ line.events[k].kind \in {"spawn", "spawn_failed"}
        /\ line.events[k].argv[1] = name

\* C25: a line time <rest> leaves the status, the job table and the files
\* that <rest> alone leaves in the same state, and returns as <rest> does;
\* under time the job builtins are not started as programs.
C25_TimeChangesNothing ==
    TimedLine =>
        /\ line.returned_ok = Untimed.returned_ok
        /\ last_status = Untimed.last_status
        /\ jobs = Untimed.w.jobs
        /\ files = Untimed.w.files
        /\ ~StartedAsProgram(S_jobs)
        /\ ~StartedAsProgram(S_fg)

\* C27: whatever the place of a Simple node in the tree, no program is
\* started for an argv the builtin dispatcher handles.
C27_HandledNeverSpawned ==
    nlines > 0 =>
        \A k \in 1..Len(line.events) :
            line.events[k].kind \in {"spawn", "spawn_failed"} =>
                try_handle_builtin(line.events[k].argv,
                                   line.before.files).kind = "NotHandled"

\* C30: after echo hi | cat > f, and after echo hi > f | cat, the file f
\* holds the output of the redirected command.
C30_RedirectOutInsidePipe ==
    (nlines > 0 /\ line.tokens \in PipeRedirectLines) =>
        files[S_f] = FileOf(S_hi \o <<"\n">>)

\* The status a spawn failure of argv stands for.
SpawnFailureStatus(argv) ==
    IF Program(argv, <<>>).spawn = "NotFound" THEN 127 ELSE 126

\* C31: when the last thing a line did was a spawn that failed, in
\* whatever context, run_line returned normally and last_status is 127
\* for a program not found and 126 for any other failure.
C31_SpawnFailureEverywhere ==
    (/\ nlines > 0
     /\ line.events # <<>>
     /\ line.events[Len(line.events)].kind = "spawn_failed") =>
        /\ line.returned_ok
        /\ last_status =
                SpawnFailureStatus(line.events[Len(line.events)].argv)

\* The invocations of the builtin dispatcher that handled a command, among
\* the events of the last line.
BuiltinInvocations ==
    SelectSeq(line.events, LAMBDA e : e.kind = "builtin")

\* The argv of the command under the time prefix of the last line.
TimedArgv ==
    [k \in 1..Len(SelectSeq(Tail(line.tokens), LAMBDA t : t.type = "Word"))
        |-> SelectSeq(Tail(line.tokens), LAMBDA t : t.type = "Word")[k].text]

\* C32: a command of the builtin dispatcher under the time prefix is
\* invoked once, and the line ends with the status of that invocation.
C32_TimedBuiltinRunsOnce ==
    (/\ TimedLine
     /\ try_handle_builtin(TimedArgv, line.before.files).kind # "NotHandled")
        =>
        /\ Len(BuiltinInvocations) = 1
        /\ line.returned_ok
        /\ last_status = BuiltinInvocations[1].status.code

\* The number of words a tree holds (argv entries and redirect files) and
\* the number of its operator nodes.
RECURSIVE WordsIn(_)
WordsIn(node) ==
    IF node.type = "Simple" THEN Len(node.argv)
    ELSE IF node.type \in {"Pipe", "Chain"}
    THEN WordsIn(node.left) + WordsIn(node.right)
    ELSE WordsIn(node.cmd) + 1

RECURSIVE OperatorsIn(_)
OperatorsIn(node) ==
    IF node.type = "Simple" THEN 0
    ELSE IF node.type \in {"Pipe", "Chain"}
    THEN OperatorsIn(node.left) + OperatorsIn(node.right) + 1
    ELSE OperatorsIn(node.cmd) + 1

\* The words of ts are taken as they are: none holds a character the
\* expansions act on.
LiteralWords(ts) ==
    \A k \in 1..Len(ts) :
        ts[k].type = "Word" =>
            \A ch \in {"*", "?", "[", "$", "~", BackQuote} :
                ~Contains(ts[k].text, ch)

\* C33: when the parser returns a tree for a line without a Background
\* token, every Word of the line is an argv entry or a redirect file of the
\* tree and every operator of the line is a node of the tree.
C33_NoTokenDiscarded ==
    (/\ pc = "done"
     /\ result.ok
     /\ ~HasBackground(tokens)
     /\ LiteralWords(tokens)) =>
        /\ WordsIn(result.node) =
                Len(SelectSeq(tokens, LAMBDA t : t.type = "Word"))
        /\ OperatorsIn(result.node) =
                Len(SelectSeq(tokens, LAMBDA t : t.type # "Word"))

\* A text with each of its newlines replaced by a space.
NewlinesAsSpaces(s) ==
    [k \in 1..Len(s) |-> IF s[k] = "\n" THEN " " ELSE s[k]]

\* C34: a command continued on a second line is tokenized as the same
\* command on one line, and no Word holds a newline.
C34_NewlineSeparatesWords ==
    (Tokenized /\ lexer.st.input \in ContinuedTexts) =>
        /\ lexer.st.tokens = tokenize(NewlinesAsSpaces(lexer.st.input))
        /\ \A k \in 1..Len(lexer.st.tokens) :
                lexer.st.tokens[k].type = "Word" =>
                    ~Contains(lexer.st.tokens[k].text, "\n")

\* C35: a word that is one command substitution $(...) is tokenized to one
\* Word holding the whole text, whatever blanks and operator characters
\* lie between its parentheses.
C35_SubstitutionKeptWhole ==
    (Tokenized /\ lexer.st.input \in SubstTexts) =>
        lexer.st.tokens = <<Word(lexer.st.input)>>

\* C36: when the last child a line waited for was killed by a signal,
\* last_status is not 0 afterwards; and segv && echo hi starts nothing
\* after segv was killed.
C36_KilledChildFails ==
    nlines > 0 =>
        /\ (/\ line.events # <<>>
            /\ line.events[Len(line.events)].kind \in {"spawn", "wait"}
            /\ line.events[Len(line.events)].via # "background"
            /\ line.events[Len(line.events)].status.signaled)
                => last_status # 0
        /\ line.tokens = Line_segv_and_echo => Len(line.events) = 1

\* C37: the listing the dispatcher captured for ll is on the shell's
\* standard output after the line ll, in the file f after ll > f, and the
\* input of cat in ll | cat.
C37_BuiltinOutputKept ==
    nlines > 0 =>
        /\ line.tokens = C_ll =>
                /\ line.events[1].stdout # <<>>
                /\ line.terminal = line.events[1].stdout
        /\ line.tokens = C_ll \o <<TRedirectOut, Word(S_f)>> =>
                files[S_f] = FileOf(line.events[1].stdout)
        /\ line.tokens = C_ll \o <<TPipe>> \o C_cat =>
                /\ line.events[2].stdin = line.events[1].stdout
                /\ line.terminal = line.events[1].stdout

\* The inner command of the last line ran alone and failed: its program
\* could not be spawned, or exited with a non-zero status.
InnerFailed ==
    /\ Len(line.events) = 1
    /\ \/ line.events[1].kind = "spawn_failed"
       \/ /\ line.events[1].kind = "spawn"
          /\ ~success(line.events[1].status)

\* C38: when the external command of c > file or c >> file cannot be
\* spawned or exits with a non-zero status, every file is as it was before
\* the line (the target is neither created, truncated nor appended to) and
\* the line returns the error.
C38_FailedRedirectLeavesFile ==
    \A c \in RedirectedCmds, f \in FileSet,
       op \in {TRedirectOut, TRedirectAppend} :
        (line.tokens = c \o <<op, Word(f)>> /\ InnerFailed) =>
            /\ files = line.before.files
            /\ ~line.returned_ok

\* false > f left the content of an existing f in place; nosuch > f did
\* not create f.
C38_Witness ==
    \/ /\ line.tokens = C_false \o <<TRedirectOut, Word(S_f)>>
       /\ InnerFailed
       /\ line.before.files[S_f] = FileOf(<<"o", "\n">>)
       /\ files[S_f] = FileOf(<<"o", "\n">>)
    \/ /\ line.tokens = C_nosuch \o <<TRedirectOut, Word(S_f)>>
       /\ InnerFailed
       /\ ~line.before.files[S_f].exists
       /\ ~files[S_f].exists

====
